---- MODULE Spec2Model ----
(***************************************************************************)
(* Model of the SDWIS search / report program:                             *)
(*   src/app.py            Streamlit app: cached pulls, fast_search,       *)
(*                         PWSID lookup, report, cache clear               *)
(*   src/sdwis_ca_report.py  remote fetches, token filter, search_by_name, *)
(*                         fetch_all_selected, CLI main                    *)
(*                                                                         *)
(* Text values are sequences of one-character strings, so that strip,     *)
(* lower/upper, substring tests and the regular expressions of the source  *)
(* are computed character by character.  A missing value (JSON null) is    *)
(* NULL.  A DataFrame is [cols |-> set of column names, rows |-> sequence   *)
(* of functions from cols to values].                                      *)
(***************************************************************************)
EXTENDS Integers, Sequences, FiniteSets, TLC

(***************************************************************************)
(* Characters and text                                                     *)
(***************************************************************************)
UC == <<"A","B","C","D","E","F","G","H","I","J","K","L","M",
        "N","O","P","Q","R","S","T","U","V","W","X","Y","Z">>
LC == <<"a","b","c","d","e","f","g","h","i","j","k","l","m",
        "n","o","p","q","r","s","t","u","v","w","x","y","z">>
DIGITS == <<"0","1","2","3","4","5","6","7","8","9">>

Range(s) == {s[i] : i \in DOMAIN s}

UpperSet == Range(UC)
LowerSet == Range(LC)
DigitSet == Range(DIGITS)
AlnumSet == UpperSet \cup LowerSet \cup DigitSet
LowerMap == [c \in UpperSet |-> LC[CHOOSE i \in DOMAIN UC : UC[i] = c]]
UpperMap == [c \in LowerSet |-> UC[CHOOSE i \in DOMAIN LC : LC[i] = c]]

IsUpper(c) == c \in UpperSet
IsLower(c) == c \in LowerSet
IsDigit(c) == c \in DigitSet
IsAlpha(c) == IsUpper(c) \/ IsLower(c)
IsAlnum(c) == c \in AlnumSet
IsSpace(c) == c = " "

LowerChar(c) == IF IsUpper(c) THEN LowerMap[c] ELSE c
UpperChar(c) == IF IsLower(c) THEN UpperMap[c] ELSE c

\* str.lower() / str.upper()
Lower(s) == [i \in DOMAIN s |-> LowerChar(s[i])]
Upper(s) == [i \in DOMAIN s |-> UpperChar(s[i])]

\* str.strip(): drop leading and trailing whitespace
RECURSIVE LStrip(_)
LStrip(s) == IF s # <<>> /\ IsSpace(Head(s)) THEN LStrip(Tail(s)) ELSE s
RECURSIVE RStrip(_)
RStrip(s) == IF s # <<>> /\ IsSpace(s[Len(s)]) THEN RStrip(SubSeq(s, 1, Len(s) - 1)) ELSE s
Strip(s) == RStrip(LStrip(s))

\* needle in hay (Python substring test)
Contains(hay, needle) ==
    \E i \in 0..(Len(hay) - Len(needle)) : SubSeq(hay, i + 1, i + Len(needle)) = needle

StartsWith(s, p) == Len(p) <= Len(s) /\ SubSeq(s, 1, Len(p)) = p

\* The missing value (None / NaN) and what astype(str) / str() makes of it.
NULL == <<"NULL">>
NoneText == <<"N","o","n","e">>
AsStr(v) == IF v = NULL THEN NoneText ELSE v
\* fillna("").astype(str)
FillNa(v) == IF v = NULL THEN <<>> ELSE v

\* Code-point order of the characters the model uses (for sort_values).
ASCII == <<" ", "-">> \o DIGITS \o UC \o LC
OrdMap == [c \in Range(ASCII) |-> CHOOSE i \in DOMAIN ASCII : ASCII[i] = c]
Ord(c) == OrdMap[c]
RECURSIVE StrLess(_,_)
StrLess(a, b) ==
    IF b = <<>> THEN FALSE
    ELSE IF a = <<>> THEN TRUE
    ELSE IF Head(a) = Head(b) THEN StrLess(Tail(a), Tail(b))
    ELSE Ord(Head(a)) < Ord(Head(b))

\* re.findall(r"[A-Za-z0-9]+", q): the maximal alphanumeric runs, in order
RECURSIVE TokScan(_,_,_)
TokScan(s, i, cur) ==
    IF i > Len(s) THEN (IF cur = <<>> THEN <<>> ELSE <<cur>>)
    ELSE IF IsAlnum(s[i]) THEN TokScan(s, i + 1, Append(cur, s[i]))
    ELSE (IF cur = <<>> THEN <<>> ELSE <<cur>>) \o TokScan(s, i + 1, <<>>)
Tokenize(q) == TokScan(q, 1, <<>>)

\* A format check that takes nine digits only
looks_like_pwsid_digits(s) ==
    LET t == Strip(s) IN
    /\ Len(t) = 9
    /\ \A i \in 1..9 : IsDigit(t[i])

\* re.fullmatch(r"[A-Za-z]{2}\d{7}", s.strip())
looks_like_pwsid(s) ==
    LET t == Strip(s) IN
    /\ Len(t) = 9
    /\ \A i \in 1..2 : IsAlpha(t[i])
    /\ \A i \in 3..9 : IsDigit(t[i])

\* re.fullmatch(r"[A-Z]{2}", sc)
IsStateCode(sc) == Len(sc) = 2 /\ \A i \in 1..2 : IsUpper(sc[i])

(***************************************************************************)
(* DataFrames                                                              *)
(***************************************************************************)
EmptyFrame == [cols |-> {}, rows |-> <<>>]
\* DataFrame.empty: no rows or no columns
IsEmpty(df) == df.rows = <<>> \/ df.cols = {}

\* df[cols]: project every row on the given columns
Project(df, cols) ==
    [cols |-> cols, rows |-> [i \in DOMAIN df.rows |-> [c \in cols |-> df.rows[i][c]]]]

\* columns are upper-cased; an empty frame becomes pd.DataFrame()
UpperCol(c) ==
    CASE c = "pwsid" -> "PWSID"
      [] c = "pws_name" -> "PWS_NAME"
      [] c = "city_name" -> "CITY_NAME"
      [] c = "city_served" -> "CITY_SERVED"
      [] c = "county_served" -> "COUNTY_SERVED"
      [] c = "state_code" -> "STATE_CODE"
      [] OTHER -> c
df_upper(df) ==
    IF IsEmpty(df) THEN EmptyFrame
    ELSE LET up == {UpperCol(c) : c \in df.cols} IN
         [cols |-> up,
          rows |-> [i \in DOMAIN df.rows |->
                      [C \in up |-> df.rows[i][CHOOSE c \in df.cols : UpperCol(c) = C]]]]

\* no de-duplication at all
keep_duplicates(df, col) == df

\* drop_duplicates(col): keep the first row of every value of col
drop_duplicates(df, col) ==
    LET F[i \in 0..Len(df.rows)] ==
            IF i = 0 THEN <<>>
            ELSE IF \E j \in 1..(i - 1) : df.rows[j][col] = df.rows[i][col]
                 THEN F[i - 1] ELSE Append(F[i - 1], df.rows[i])
    IN [cols |-> df.cols, rows |-> F[Len(df.rows)]]

\* sort_values(col): ascending, missing values last; ties keep their order
\* (insertion sort, which is what the sort does on short inputs)
ValLessEq(a, b) ==
    IF a = NULL THEN b = NULL
    ELSE IF b = NULL THEN TRUE
    ELSE ~StrLess(b, a)
RECURSIVE InsertSorted(_,_,_)
InsertSorted(sorted, r, col) ==
    IF sorted = <<>> THEN <<r>>
    ELSE IF ValLessEq(sorted[Len(sorted)][col], r[col]) THEN Append(sorted, r)
    ELSE Append(InsertSorted(SubSeq(sorted, 1, Len(sorted) - 1), r, col), sorted[Len(sorted)])
sort_values(df, col) ==
    LET F[i \in 0..Len(df.rows)] ==
            IF i = 0 THEN <<>> ELSE InsertSorted(F[i - 1], df.rows[i], col)
    IN [cols |-> df.cols, rows |-> F[Len(df.rows)]]

(***************************************************************************)
(* Bounds of the model.  PAGE_SIZE, MAX_PAGES, max_ga_candidates and the   *)
(* two max_entries stand for the program's 50000, 10, 300, 5000 and 300,   *)
(* scaled down so that a table spans several pages, a candidate list       *)
(* exceeds the cap, and a cache fills up.                                  *)
(***************************************************************************)
PAGE_SIZE == 2
MAX_PAGES == 2
max_ga_candidates == 2
GA_MAX_ENTRIES == 3
BUNDLE_MAX_ENTRIES == 1
MaxOps == 2
MaxCacheOps == 3

(***************************************************************************)
(* Identifiers, names and places the remote tables and the queries use     *)
(***************************************************************************)
AK == <<"A","K">>
CA == <<"C","A">>
\* app.py STATES, cut down to two jurisdictions
STATES == {AK, CA}

ID1 == <<"A","K","0","0","0","0","0","0","1">>
ID2 == <<"A","K","0","0","0","0","0","0","2">>
ID3 == <<"A","K","0","0","0","0","0","0","3">>
BADID == <<"A","K","1">>
ZZ9999999 == <<"Z","Z","9","9","9","9","9","9","9">>

\* TABLE_FIELDS: the tables of the detail bundle, in dictionary order
TABLES == <<"WATER_SYSTEM", "GEOGRAPHIC_AREA", "VIOLATION",
            "WATER_SYSTEM_FACILITY", "SERVICE_AREA", "TREATMENT">>

VARIABLES
    remoteWS,      \* raw frame: the WATER_SYSTEM rows the service holds
    remoteGA,      \* raw frame: the GEOGRAPHIC_AREA rows the service holds
    down,          \* the requests that fail (both the verified and the unverified attempt)
    net,           \* how they fail, and whether certificate validation works at all
    wsCache,       \* st.cache_data of get_ws_by_state: function from cached state codes
    gaCache,       \* st.cache_data of cached_ga_by_pwsid: <<[k, v], ...>>, least recently used first
    bundleCache,   \* st.cache_data of cached_fetch_all_selected: same shape
    state,         \* the State selectbox
    matches,       \* st.session_state.matches: the frame shown, or EmptyFrame for None
    ev,            \* what the last operation did (requests issued, result, messages)
    produced,      \* the cache keys produced since the last clear or expiry
    nops           \* operations the run may still make

vars ==
    <<remoteWS, remoteGA, down, net, wsCache, gaCache, bundleCache, state, matches, ev,
      produced, nops>>

(***************************************************************************)
(* RemoteTableClient                                                       *)
(***************************************************************************)
\* The element of a one-element set.  {f(x) : x \in {e}} names the value of
\* e once, as a local variable of the source does.
Only(S) == CHOOSE x \in S : TRUE

\* The service's equality filter /{col}/{val}: the rows whose col is the
\* text put into the URL (none when the table has no such column).
FilterRows(tbl, col, val) ==
    LET F[i \in 0..Len(tbl.rows)] ==
            IF i = 0 THEN <<>>
            ELSE IF col \in tbl.cols /\ tbl.rows[i][col] = val
                 THEN Append(F[i - 1], tbl.rows[i]) ELSE F[i - 1]
    IN [cols |-> tbl.cols, rows |-> F[Len(tbl.rows)]]

\* The table of the service a request names
RemoteTable(table) ==
    CASE table = "WATER_SYSTEM" -> remoteWS
      [] table = "GEOGRAPHIC_AREA" -> remoteGA
      [] OTHER -> EmptyFrame

\* Rows start..end of a table, as the service returns them for one page.
PageOf(rows, p) ==
    SubSeq(rows, p * PAGE_SIZE + 1,
           IF (p + 1) * PAGE_SIZE < Len(rows) THEN (p + 1) * PAGE_SIZE ELSE Len(rows))

\* api_get_json of one page or one key: the request fails (an exception
\* after the unverified retry) or returns the rows.
\* HTTPAdapter(max_retries=3): the retries of one _session.get on a connection
\* that cannot be made (a refused connection, a certificate that fails)
ADAPTER_RETRIES == 3

Try(verify, ok) == [verify |-> verify, ok |-> ok]
\* One _session.get(url, verify=...) with raise_for_status and r.json(): the
\* connections it tries.  A connection that cannot be made is tried again by
\* the adapter until its retries are used up; an error status is not.
SessionGet(req, verify) ==
    IF req \in down /\ net.kind = "malformed" THEN <<Try(verify, ~verify \/ net.cert)>>
    ELSE IF req \in down /\ net.kind = "status" THEN <<Try(verify, FALSE)>>
    ELSE IF req \in down \/ (verify /\ ~net.cert)
    THEN [i \in 1..(1 + ADAPTER_RETRIES) |-> Try(verify, FALSE)]
    ELSE <<Try(verify, TRUE)>>

\* Whether a _session.get returned: its last connection answered
Got(get) == get[Len(get)].ok

api_get_json_AlwaysUnverified(req) ==
    [raised |-> ~Got(SessionGet(req, FALSE)),
     gets |-> <<SessionGet(req, TRUE), SessionGet(req, FALSE)>>]

\* api_get_json: verify=True, and on any exception once more with verify=False.
\* gets are the _session.get calls made, each with its connections.
api_get_json(req) ==
    IF Got(SessionGet(req, TRUE))
    THEN [raised |-> FALSE, gets |-> <<SessionGet(req, TRUE)>>]
    ELSE [raised |-> ~Got(SessionGet(req, FALSE)),
          gets |-> <<SessionGet(req, TRUE), SessionGet(req, FALSE)>>]

\* The request raises out of api_get_json
Failed(req) == api_get_json(req).raised
\* The request is answered with JSON that is not a list (an error object)
Malformed(req) == req \in down /\ net.kind = "malformed"
\* Rows/{start}:{end} of page p
Window(p) == [start |-> p * PAGE_SIZE, end |-> p * PAGE_SIZE + PAGE_SIZE]

\* The paging loop of pull_rows_paged / pull_rows_filtered over one remote
\* table: request page p; stop at a failed or empty page or after max_pages.
\* url names the request.  st is [parts, reqs, open]: the rows of the pages
\* received (pd.concat order), the requests issued, and whether the loop is
\* still running.
PageStep_DropOnFailure(url, tbl, p, st) ==
    IF ~st.open THEN st
    ELSE IF Failed(<<url, p>>)
    THEN [parts |-> <<>>, reqs |-> Append(st.reqs, <<url, p>>), open |-> FALSE]
    ELSE IF Malformed(<<url, p>>) \/ PageOf(tbl.rows, p) = <<>>
    THEN [parts |-> st.parts, reqs |-> Append(st.reqs, <<url, p>>), open |-> FALSE]
    ELSE [parts |-> st.parts \o PageOf(tbl.rows, p), reqs |-> Append(st.reqs, <<url, p>>),
          open |-> TRUE]

\* A loop that goes on to the next page after a failed or empty one
PageStep_SkipBadPage(url, tbl, p, st) ==
    IF Failed(<<url, p>>) \/ Malformed(<<url, p>>)
    THEN [parts |-> st.parts, reqs |-> Append(st.reqs, <<url, p>>), open |-> TRUE]
    ELSE [parts |-> st.parts \o PageOf(tbl.rows, p), reqs |-> Append(st.reqs, <<url, p>>),
          open |-> TRUE]

PageStep(url, tbl, p, st) ==
    IF ~st.open THEN st
    ELSE IF Failed(<<url, p>>) \/ Malformed(<<url, p>>) \/ PageOf(tbl.rows, p) = <<>>
    THEN [parts |-> st.parts, reqs |-> Append(st.reqs, <<url, p>>), open |-> FALSE]
    ELSE [parts |-> st.parts \o PageOf(tbl.rows, p), reqs |-> Append(st.reqs, <<url, p>>),
          open |-> TRUE]

RECURSIVE PageLoop(_,_,_,_)
PageLoop(url, tbl, p, st) ==
    IF p >= MAX_PAGES THEN st
    ELSE Only({PageLoop(url, tbl, p + 1, nx) : nx \in {PageStep(url, tbl, p, st)}})

\* parts -> df_upper(pd.concat(parts)), or pd.DataFrame() when there is none
Pulled(tbl, st) ==
    [df |-> IF st.parts = <<>> THEN EmptyFrame
            ELSE df_upper([cols |-> tbl.cols, rows |-> st.parts]),
     reqs |-> st.reqs]

pull_rows_filtered(table, col, val) ==
    Only({Pulled(tbl, PageLoop(<<table, col, val>>, tbl, 0,
                               [parts |-> <<>>, reqs |-> <<>>, open |-> TRUE])) :
            tbl \in {FilterRows(RemoteTable(table), col, val)}})

pull_rows_paged(table) ==
    Only({Pulled(tbl, PageLoop(<<table>>, tbl, 0,
                               [parts |-> <<>>, reqs |-> <<>>, open |-> TRUE])) :
            tbl \in {RemoteTable(table)}})

\* fetch_table_by_pwsid: one request; a failure or an empty answer is an empty frame
fetch_table_by_pwsid(table, pwsid) ==
    [df |-> IF Failed(<<table, "pwsid", AsStr(pwsid)>>) \/ Malformed(<<table, "pwsid", AsStr(pwsid)>>)
            THEN EmptyFrame
            ELSE df_upper(FilterRows(RemoteTable(table), "pwsid", AsStr(pwsid))),
     reqs |-> << <<table, "pwsid", AsStr(pwsid)>> >>]

(***************************************************************************)
(* Token filter                                                            *)
(***************************************************************************)
\* One row of token_and_contains: every non-empty token is found in
\* astype(str) of the value, ignoring case (re.escape(t), case=False).
token_and_contains(value, tokens) ==
    \A k \in DOMAIN tokens :
        tokens[k] # <<>> => Contains(Lower(AsStr(value)), Lower(tokens[k]))

\* ws[m]: the rows the mask keeps
MaskRows(ws, tokens) ==
    LET F[i \in 0..Len(ws.rows)] ==
            IF i = 0 THEN <<>>
            ELSE IF token_and_contains(ws.rows[i]["PWS_NAME"], tokens)
                 THEN Append(F[i - 1], ws.rows[i]) ELSE F[i - 1]
    IN [cols |-> ws.cols, rows |-> F[Len(ws.rows)]]

\* The name filter of fast_search and search_by_name; the frame itself when
\* there is no query, no PWS_NAME column or no token
NameFilter(ws, name_query) ==
    IF Strip(name_query) # <<>> /\ "PWS_NAME" \in ws.cols /\ Tokenize(Strip(name_query)) # <<>>
    THEN Only({MaskRows(ws, tokens) : tokens \in {Tokenize(Strip(name_query))}})
    ELSE ws

(***************************************************************************)
(* CacheStore: st.cache_data                                               *)
(***************************************************************************)
CacheHas(c, k) == \E i \in DOMAIN c : c[i].k = k
CacheGet(c, k) == c[CHOOSE i \in DOMAIN c : c[i].k = k].v
CacheDrop(c, k) ==
    LET F[i \in 0..Len(c)] ==
            IF i = 0 THEN <<>>
            ELSE IF c[i].k = k THEN F[i - 1] ELSE Append(F[i - 1], c[i])
    IN F[Len(c)]
\* a hit makes the entry the most recently used
CacheTouch(c, k) == Append(CacheDrop(c, k), [k |-> k, v |-> CacheGet(c, k)])
\* a store beyond max_entries discards the least recently used entry
CachePut(c, k, v, max_entries) ==
    IF Len(CacheDrop(c, k)) + 1 > max_entries
    THEN Append(Tail(CacheDrop(c, k)), [k |-> k, v |-> v])
    ELSE Append(CacheDrop(c, k), [k |-> k, v |-> v])

\* ws[keep].drop_duplicates("PWSID") if keep else ws; KeyError without PWSID
KeepWs(ws, reqs) ==
    LET keep == {"PWSID", "PWS_NAME", "CITY_NAME"} \cap ws.cols IN
    IF keep # {} /\ "PWSID" \notin keep
    THEN [raised |-> TRUE, value |-> EmptyFrame, reqs |-> reqs]
    ELSE [raised |-> FALSE,
          value |-> IF keep # {} THEN drop_duplicates(Project(ws, keep), "PWSID") ELSE ws,
          reqs |-> reqs]

\* get_ws_by_state, the function under the cache
get_ws_by_state(st) ==
    Only({KeepWs(df_upper(p.df), p.reqs) :
            p \in {pull_rows_filtered("WATER_SYSTEM", "state_code", Upper(st))}})

\* what a call through the cache gives: a hit or the stored result of g
\* A cache that does not keep an empty value
Stored_UnlessEmpty(cache, st, g) ==
    [raised |-> g.raised, value |-> g.value, reqs |-> g.reqs,
     cache |-> IF g.raised \/ IsEmpty(g.value) THEN cache
               ELSE [x \in DOMAIN cache \cup {st} |-> IF x = st THEN g.value ELSE cache[x]]]

Stored(cache, st, g) ==
    [raised |-> g.raised, value |-> g.value, reqs |-> g.reqs,
     cache |-> IF g.raised THEN cache
               ELSE [x \in DOMAIN cache \cup {st} |-> IF x = st THEN g.value ELSE cache[x]]]

\* get_ws_by_state through @st.cache_data (a call that raises stores nothing)
cached_ws_by_state(cache, st) ==
    IF st \in DOMAIN cache
    THEN [raised |-> FALSE, value |-> cache[st], reqs |-> <<>>, cache |-> cache]
    ELSE Only({Stored(cache, st, g) : g \in {get_ws_by_state(st)}})

GaStored(cache, pwsid, f) ==
    [value |-> df_upper(f.df), reqs |-> f.reqs,
     cache |-> CachePut(cache, pwsid, df_upper(f.df), GA_MAX_ENTRIES)]

\* cached_ga_by_pwsid without its cache: every call fetches
uncached_ga_by_pwsid(cache, pwsid) ==
    Only({GaStored(cache, pwsid, f) :
            f \in {fetch_table_by_pwsid("GEOGRAPHIC_AREA", pwsid)}})

\* cached_ga_by_pwsid through @st.cache_data(max_entries=5000)
cached_ga_by_pwsid(cache, pwsid) ==
    IF CacheHas(cache, pwsid)
    THEN [value |-> CacheGet(cache, pwsid), reqs |-> <<>>, cache |-> CacheTouch(cache, pwsid)]
    ELSE Only({GaStored(cache, pwsid, f) :
                 f \in {fetch_table_by_pwsid("GEOGRAPHIC_AREA", pwsid)}})

(***************************************************************************)
(* SearchFederator: fast_search (app.py)                                   *)
(***************************************************************************)
\* out[...] of the name-only and the fallback return: CITY from CITY_NAME,
\* de-duplicated by PWSID, sorted by PWS_NAME.  A missing PWSID or PWS_NAME
\* column makes drop_duplicates / sort_values raise KeyError.
NameOnlyView(ws) ==
    LET cols == ({"PWSID", "PWS_NAME"} \cap ws.cols)
                    \cup (IF "CITY_NAME" \in ws.cols THEN {"CITY"} ELSE {})
    IN IF "PWSID" \notin ws.cols \/ "PWS_NAME" \notin ws.cols
       THEN [raised |-> TRUE, result |-> EmptyFrame]
       ELSE [raised |-> FALSE,
             result |-> sort_values(drop_duplicates(
                 [cols |-> cols,
                  rows |-> [i \in DOMAIN ws.rows |->
                              [c \in cols |->
                                  IF c = "CITY" THEN Strip(FillNa(ws.rows[i]["CITY_NAME"]))
                                  ELSE ws.rows[i][c]]]], "PWSID"), "PWS_NAME")]

\* The value of the first row, whether it is empty or not
FirstValue(df, col) ==
    IF col \in df.cols /\ df.rows # <<>> /\ df.rows[1][col] # NULL THEN Strip(df.rows[1][col])
    ELSE <<>>

\* next(str(x).strip() for x in col.dropna().astype(str) if x.strip()), ""
RECURSIVE FirstFrom(_,_,_)
FirstFrom(df, col, i) ==
    IF i > Len(df.rows) THEN <<>>
    ELSE IF df.rows[i][col] # NULL /\ Strip(df.rows[i][col]) # <<>> THEN Strip(df.rows[i][col])
    ELSE FirstFrom(df, col, i + 1)
FirstNonEmpty(df, col) == IF col \in df.cols THEN FirstFrom(df, col, 1) ELSE <<>>

\* A test of one candidate that takes any Location row, whatever the term
GaHit_AnyPlace(ga_df, county, citysv, term) == ~IsEmpty(ga_df)

\* The test of one candidate: its first county or first city holds the term
GaHit(ga_df, county, citysv, term) ==
    /\ ~IsEmpty(ga_df)
    /\ \/ county # <<>> /\ Contains(Lower(county), term)
       \/ citysv # <<>> /\ Contains(Lower(citysv), term)

\* One turn of the loop over the candidates, after cached_ga_by_pwsid(pid)
GaAdd(pid, term, acc, g, county, citysv) ==
    [ga_rows |-> IF GaHit(g.value, county, citysv, term)
                 THEN Append(acc.ga_rows,
                             [PWSID |-> pid, CITY_SERVED |-> citysv, COUNTY_SERVED |-> county])
                 ELSE acc.ga_rows,
     reqs |-> acc.reqs \o g.reqs,
     cache |-> g.cache]

GaSeen(pid, term, acc, g) ==
    Only({GaAdd(pid, term, acc, g, county, citysv) :
            county \in {FirstNonEmpty(g.value, "COUNTY_SERVED")},
            citysv \in {FirstNonEmpty(g.value, "CITY_SERVED")}})

GaStep(pid, term, acc) ==
    Only({GaSeen(pid, term, acc, g) : g \in {cached_ga_by_pwsid(acc.cache, pid)}})

\* A loop over the candidates that ends at the first failed fetch
RECURSIVE GaLoop_StopAtFailure(_,_,_,_)
GaLoop_StopAtFailure(cands, i, term, acc) ==
    IF i > Len(cands) THEN acc
    ELSE IF i > 1 /\ Failed(<<"GEOGRAPHIC_AREA", "pwsid", AsStr(cands[i - 1])>>) THEN acc
    ELSE Only({GaLoop_StopAtFailure(cands, i + 1, term, nx) :
                 nx \in {GaStep(cands[i], term, acc)}})

\* The lazy loop over the candidates: one cached_ga_by_pwsid call each
RECURSIVE GaLoop(_,_,_,_)
GaLoop(cands, i, term, acc) ==
    IF i > Len(cands) THEN acc
    ELSE Only({GaLoop(cands, i + 1, term, nx) : nx \in {GaStep(cands[i], term, acc)}})

\* A joined row whose CITY prefers CITY_SERVED to CITY_NAME
JoinRow_LocationFirst(r, cols, hasCity, ga_rows) ==
    LET k == {j \in DOMAIN ga_rows : ga_rows[j].PWSID = r["PWSID"]}
        c1 == IF hasCity THEN Strip(FillNa(r["CITY_NAME"])) ELSE <<>>
        c2 == IF k # {} THEN Strip(FillNa(ga_rows[CHOOSE j \in k : TRUE].CITY_SERVED)) ELSE <<>>
    IN [c \in cols |->
          CASE c = "CITY" -> IF c2 # <<>> THEN c2 ELSE c1
            [] c = "COUNTY_SERVED" ->
                  IF k # {} THEN ga_rows[CHOOSE j \in k : TRUE].COUNTY_SERVED ELSE NULL
            [] OTHER -> r[c]]

\* One row of ws_union after the merge with ga_match: CITY prefers CITY_NAME,
\* else CITY_SERVED; COUNTY_SERVED from ga_match, missing where it has no row
JoinRow(r, cols, hasCity, ga_rows) ==
    LET k == {j \in DOMAIN ga_rows : ga_rows[j].PWSID = r["PWSID"]}
        c1 == IF hasCity THEN Strip(FillNa(r["CITY_NAME"])) ELSE <<>>
    IN [c \in cols |->
          CASE c = "CITY" ->
                  IF c1 # <<>> THEN c1
                  ELSE IF k # {} THEN Strip(FillNa(ga_rows[CHOOSE j \in k : TRUE].CITY_SERVED))
                  ELSE <<>>
            [] c = "COUNTY_SERVED" ->
                  IF k # {} THEN ga_rows[CHOOSE j \in k : TRUE].COUNTY_SERVED ELSE NULL
            [] OTHER -> r[c]]

\* ws_union merged with ga_match, the unified CITY column and the final view
JoinView(ws, pwsid_union, ga_rows) ==
    LET cols == ({"PWSID", "PWS_NAME"} \cap ws.cols) \cup {"CITY"}
                    \cup (IF ga_rows # <<>> THEN {"COUNTY_SERVED"} ELSE {})
        U[i \in 0..Len(ws.rows)] ==
            IF i = 0 THEN <<>>
            ELSE IF ws.rows[i]["PWSID"] \in pwsid_union
                 THEN Append(U[i - 1], JoinRow(ws.rows[i], cols, "CITY_NAME" \in ws.cols, ga_rows))
                 ELSE U[i - 1]
    IN IF "PWS_NAME" \notin ws.cols
       THEN [raised |-> TRUE, result |-> EmptyFrame]
       ELSE [raised |-> FALSE,
             result |-> sort_values(drop_duplicates([cols |-> cols, rows |-> U[Len(ws.rows)]],
                                                    "PWSID"), "PWS_NAME")]

\* A search that does not consult CITY_NAME
WsCityMatch_Never(ws, term) == {}

\* The PWSIDs of the rows whose CITY_NAME text holds the term
WsCityMatch(ws, term) ==
    IF "CITY_NAME" \in ws.cols
    THEN {ws.rows[i]["PWSID"] : i \in {j \in DOMAIN ws.rows :
              Contains(Lower(AsStr(ws.rows[j]["CITY_NAME"])), term)}}
    ELSE {}

\* Whether the note on the capped candidates is shown on a return path
TruncationNote(too_many, path) == too_many /\ path = "join"

\* The candidates without the cap
Uncapped(all) == all

\* candidates[:max_ga_candidates]
Capped(all) == IF Len(all) > max_ga_candidates THEN SubSeq(all, 1, max_ga_candidates) ELSE all

Outcome(raised, path, result, info, w, gaCalls, gaReqs, gaC) ==
    [raised |-> raised, path |-> path, result |-> result, info |-> info,
     wsReqs |-> w.reqs, gaCalls |-> gaCalls, gaReqs |-> gaReqs,
     wsCache |-> w.cache, gaCache |-> gaC]

\* The end of fast_search: the union, the fallback or the join
United(w, ws, too_many, calls, g, pwsid_union) ==
    IF pwsid_union = {}
    THEN Only({Outcome(v.raised, "fallback", v.result, TruncationNote(too_many, "fallback"),
                       w, calls, g.reqs, g.cache) : v \in {NameOnlyView(ws)}})
    ELSE Only({Outcome(v.raised, "join", v.result,
                       ~v.raised /\ TruncationNote(too_many, "join"),
                       w, calls, g.reqs, g.cache) : v \in {JoinView(ws, pwsid_union, g.ga_rows)}})

\* The county/city part of fast_search
Located(w, gaC, ws, term, all) ==
    Only({United(w, ws, Len(all) > max_ga_candidates, Len(Capped(all)), g,
                 WsCityMatch(ws, term) \cup {g.ga_rows[j].PWSID : j \in DOMAIN g.ga_rows}) :
            g \in {GaLoop(Capped(all), 1, term,
                          [ga_rows |-> <<>>, reqs |-> <<>>, cache |-> gaC])}})

\* fast_search after the name filter, taking a blank county/city for a query
Filtered_NoStrip(w, gaC, ws, county_or_city) ==
    IF county_or_city = <<>>
    THEN Only({Outcome(v.raised, "name", v.result, FALSE, w, 0, <<>>, gaC) :
                 v \in {NameOnlyView(ws)}})
    ELSE IF "PWSID" \notin ws.cols
    THEN Outcome(TRUE, "location", EmptyFrame, FALSE, w, 0, <<>>, gaC)
    ELSE Only({Located(w, gaC, ws, term, all) :
                 term \in {Lower(Strip(county_or_city))},
                 all \in {[i \in DOMAIN ws.rows |-> ws.rows[i]["PWSID"]]}})

\* fast_search after the name filter
Filtered(w, gaC, ws, county_or_city) ==
    IF Strip(county_or_city) = <<>>
    THEN Only({Outcome(v.raised, "name", v.result, FALSE, w, 0, <<>>, gaC) :
                 v \in {NameOnlyView(ws)}})
    ELSE IF "PWSID" \notin ws.cols
    THEN Outcome(TRUE, "location", EmptyFrame, FALSE, w, 0, <<>>, gaC)
    ELSE Only({Located(w, gaC, ws, term, all) :
                 term \in {Lower(Strip(county_or_city))},
                 all \in {[i \in DOMAIN ws.rows |-> ws.rows[i]["PWSID"]]}})

\* fast_search without the early return on an empty pull
AfterPull_NoEmptyReturn(w, gaC, name_query, county_or_city) ==
    IF w.raised THEN Outcome(TRUE, "pull", EmptyFrame, FALSE, w, 0, <<>>, gaC)
    ELSE Only({Filtered(w, gaC, ws, county_or_city) : ws \in {NameFilter(w.value, name_query)}})

\* fast_search after get_ws_by_state
AfterPull(w, gaC, name_query, county_or_city) ==
    IF w.raised THEN Outcome(TRUE, "pull", EmptyFrame, FALSE, w, 0, <<>>, gaC)
    ELSE IF IsEmpty(w.value) THEN Outcome(FALSE, "empty", w.value, FALSE, w, 0, <<>>, gaC)
    ELSE Only({Filtered(w, gaC, ws, county_or_city) : ws \in {NameFilter(w.value, name_query)}})

\* fast_search with the caches it reads; the result carries the caches it leaves
fast_search(wsC, gaC, st, name_query, county_or_city) ==
    Only({AfterPull(w, gaC, name_query, county_or_city) :
            w \in {cached_ws_by_state(wsC, Upper(Strip(st)))}})

(***************************************************************************)
(* SearchFederator: search_by_name (sdwis_ca_report.py, the CLI)           *)
(***************************************************************************)
\* drop_duplicates(subset=...): keep the first of the rows equal on subset
DropDuplicateRows(df, subset) ==
    LET F[i \in 0..Len(df.rows)] ==
            IF i = 0 THEN <<>>
            ELSE IF \E j \in 1..(i - 1) : \A c \in subset : df.rows[j][c] = df.rows[i][c]
                 THEN F[i - 1] ELSE Append(F[i - 1], df.rows[i])
    IN [cols |-> df.cols, rows |-> F[Len(df.rows)]]

\* The columns _ga_all_cached keeps, and its de-duplication
KeepGa(ga) ==
    LET keep == {"PWSID", "CITY_SERVED", "COUNTY_SERVED", "STATE_SERVED"} \cap ga.cols
        subset == {"PWSID", "CITY_SERVED", "COUNTY_SERVED"} \cap ga.cols
    IN IF keep # {} THEN DropDuplicateRows(Project(ga, keep), subset)
       ELSE DropDuplicateRows(ga, ga.cols)

\* _ga_all_cached: the whole GEOGRAPHIC_AREA table, paged
ga_all ==
    Only({[df |-> KeepGa(df_upper(p.df)), reqs |-> p.reqs] :
            p \in {pull_rows_paged("GEOGRAPHIC_AREA")}})

\* ga_state[m_county | m_citysv]: the rows of the state (PWSID prefix) whose
\* county or city text holds the term
GaMatch(ga, sc, term) ==
    LET F[i \in 0..Len(ga.rows)] ==
            IF i = 0 THEN <<>>
            ELSE IF /\ StartsWith(AsStr(ga.rows[i]["PWSID"]), sc)
                    /\ \/ /\ "COUNTY_SERVED" \in ga.cols
                          /\ Contains(Lower(AsStr(ga.rows[i]["COUNTY_SERVED"])), term)
                       \/ /\ "CITY_SERVED" \in ga.cols
                          /\ Contains(Lower(AsStr(ga.rows[i]["CITY_SERVED"])), term)
                 THEN Append(F[i - 1], ga.rows[i]) ELSE F[i - 1]
    IN [cols |-> ga.cols, rows |-> F[Len(ga.rows)]]

\* One row of the inner merge: CITY prefers CITY_NAME, else CITY_SERVED
MergeRow(r, g, cols, wsCols, gaCols) ==
    LET c1 == IF "CITY_NAME" \in wsCols THEN Strip(FillNa(r["CITY_NAME"])) ELSE <<>>
    IN [c \in cols |->
          CASE c = "CITY" ->
                  IF c1 # <<>> THEN c1
                  ELSE IF "CITY_SERVED" \in gaCols THEN Strip(FillNa(g["CITY_SERVED"]))
                  ELSE <<>>
            [] c = "COUNTY_SERVED" -> g["COUNTY_SERVED"]
            [] OTHER -> r[c]]

\* The rows of ws.merge(ga_match, on="PWSID", how="inner") for one ws row
MergeOf(r, cols, wsCols, ga_match) ==
    LET H[j \in 0..Len(ga_match.rows)] ==
            IF j = 0 THEN <<>>
            ELSE IF ga_match.rows[j]["PWSID"] = r["PWSID"]
                 THEN Append(H[j - 1], MergeRow(r, ga_match.rows[j], cols, wsCols, ga_match.cols))
                 ELSE H[j - 1]
    IN H[Len(ga_match.rows)]

\* The view built from the matching Location rows alone, whether or not a
\* System row has their key
MergeView_FromLocations(ws, ga_match) ==
    LET cols == {"PWSID", "PWS_NAME", "CITY"} \cup ({"COUNTY_SERVED"} \cap ga_match.cols)
    IN sort_values(drop_duplicates(
           [cols |-> cols,
            rows |-> [j \in DOMAIN ga_match.rows |->
                        [c \in cols |->
                           CASE c = "PWSID" -> ga_match.rows[j]["PWSID"]
                             [] c = "COUNTY_SERVED" -> ga_match.rows[j]["COUNTY_SERVED"]
                             [] c = "CITY" -> <<>>
                             [] OTHER -> NULL]]], "PWSID"), "PWS_NAME")

\* The merge, the unified CITY column and the final view
MergeView(ws, ga_match) ==
    LET cols == {"PWSID", "PWS_NAME", "CITY"} \cup ({"COUNTY_SERVED"} \cap ga_match.cols)
        M[i \in 0..Len(ws.rows)] ==
            IF i = 0 THEN <<>> ELSE M[i - 1] \o MergeOf(ws.rows[i], cols, ws.cols, ga_match)
    IN sort_values(drop_duplicates([cols |-> cols, rows |-> M[Len(ws.rows)]], "PWSID"),
                   "PWS_NAME")

CliOutcome(path, result, wsReqs, gaReqs) ==
    [path |-> path, result |-> result, wsReqs |-> wsReqs, gaReqs |-> gaReqs]

\* search_by_name once GEOGRAPHIC_AREA is there
CliJoined(sc, ws, reqs, g, ga_match) ==
    IF IsEmpty(g.df) \/ "PWSID" \notin g.df.cols
    THEN CliOutcome("noga", NameOnlyView(ws).result, reqs, g.reqs)
    ELSE IF IsEmpty(ga_match)
    THEN CliOutcome("fallback", NameOnlyView(ws).result, reqs, g.reqs)
    ELSE CliOutcome("join", MergeView(ws, ga_match), reqs, g.reqs)

CliLocated(sc, ws, reqs, term, g) ==
    Only({CliJoined(sc, ws, reqs, g, ga_match) :
            ga_match \in {IF IsEmpty(g.df) \/ "PWSID" \notin g.df.cols THEN EmptyFrame
                          ELSE GaMatch(g.df, sc, term)}})

\* search_by_name after the name filter (filtered: the filter was applied)
CliFiltered(sc, ws, filtered, reqs, county_filter) ==
    IF filtered /\ IsEmpty(ws)
    THEN CliOutcome("noname", EmptyFrame, reqs, <<>>)
    ELSE IF county_filter = NULL \/ county_filter = <<>>
    THEN CliOutcome("name", NameOnlyView(ws).result, reqs, <<>>)
    ELSE Only({CliLocated(sc, ws, reqs, term, g) :
                 term \in {Lower(Strip(county_filter))}, g \in {ga_all}})

\* search_by_name after the de-duplication of the state's rows
CliDeduped(sc, ws1, reqs, name_query, county_filter) ==
    Only({CliFiltered(sc, ws, ws # ws1, reqs, county_filter) :
            ws \in {NameFilter(ws1, name_query)}})

\* search_by_name after _ws_by_state_cached
CliPulled(sc, ws0, reqs, name_query, county_filter) ==
    IF IsEmpty(ws0) \/ "PWSID" \notin ws0.cols \/ "PWS_NAME" \notin ws0.cols
    THEN CliOutcome("empty", EmptyFrame, reqs, <<>>)
    ELSE Only({CliDeduped(sc, ws1, reqs, name_query, county_filter) :
                 ws1 \in {drop_duplicates(
                              Project(ws0, {"PWSID", "PWS_NAME", "CITY_NAME"} \cap ws0.cols),
                              "PWSID")}})

\* _ws_by_state_cached: the state's WATER_SYSTEM rows, upper-cased columns
ws_by_state(sc) ==
    Only({[df |-> df_upper(p.df), reqs |-> p.reqs] :
            p \in {pull_rows_filtered("WATER_SYSTEM", "state_code", sc)}})

search_by_name(state_code, name_query, county_filter) ==
    IF ~IsStateCode(Upper(Strip(state_code)))
    THEN CliOutcome("badstate", EmptyFrame, <<>>, <<>>)
    ELSE Only({CliPulled(sc, p.df, p.reqs, name_query, county_filter) :
                 sc \in {Upper(Strip(state_code))},
                 p \in {ws_by_state(Upper(Strip(state_code)))}})

(***************************************************************************)
(* The detail bundle                                                       *)
(***************************************************************************)
\* TABLE_FIELDS[table], the columns the model's tables can have
Wanted(table) ==
    CASE table = "WATER_SYSTEM" -> {"PWSID", "PWS_NAME", "STATE_CODE", "CITY_NAME"}
      [] table = "GEOGRAPHIC_AREA" -> {"PWSID", "CITY_SERVED", "COUNTY_SERVED"}
      [] OTHER -> {"PWSID"}

\* df[keep] of one fetched table
KeepWanted(table, df) ==
    IF ~IsEmpty(df) /\ Wanted(table) \cap df.cols # {}
    THEN Project(df, Wanted(table) \cap df.cols) ELSE df

\* fetch_all_selected: one fetch per table of TABLE_FIELDS, kept columns only
fetch_all_selected(pwsid) ==
    [out |-> [t \in Range(TABLES) |->
                Only({KeepWanted(t, f.df) : f \in {fetch_table_by_pwsid(t, pwsid)}})],
     reqs |-> [i \in DOMAIN TABLES |-> fetch_table_by_pwsid(TABLES[i], pwsid).reqs[1]]]

BundleStored(cache, pwsid, f) ==
    [value |-> f.out, reqs |-> f.reqs,
     cache |-> CachePut(cache, pwsid, f.out, BUNDLE_MAX_ENTRIES)]

\* cached_fetch_all_selected without its cache: every call fetches
uncached_fetch_all_selected(cache, pwsid) ==
    Only({BundleStored(cache, pwsid, f) : f \in {fetch_all_selected(pwsid)}})

\* cached_fetch_all_selected through @st.cache_data(max_entries=300)
cached_fetch_all_selected(cache, pwsid) ==
    IF CacheHas(cache, pwsid)
    THEN [value |-> CacheGet(cache, pwsid), reqs |-> <<>>, cache |-> CacheTouch(cache, pwsid)]
    ELSE Only({BundleStored(cache, pwsid, f) : f \in {fetch_all_selected(pwsid)}})

(***************************************************************************)
(* What the remote service may hold, and what the user may type            *)
(***************************************************************************)
NameAb == <<"A","b">>
NameB == <<"b">>
CityPadX == <<" ","X">>
CityY == <<"Y">>
Blank == <<" ">>
CountyK == <<"K">>
CountyQ == <<"Q">>
CityXk == <<"X"," ","k">>

NamePool == {NameAb, NameB, NULL}
CityPool == {NULL, Blank, CityPadX, CityY}
IdPool == {ID2, ID1, BADID, NULL}
PlacePool == {NULL, Blank, CountyK, CityXk}
WsColPool == SUBSET {"pwsid", "pws_name", "city_name"}
GaColPool == SUBSET {"pwsid", "county_served", "city_served"}

WsRow(id, name, city) ==
    [pwsid |-> id, pws_name |-> name, city_name |-> city, state_code |-> AK]
GaRow(id, county, city) ==
    [pwsid |-> id, county_served |-> county, city_served |-> city]

\* A WATER_SYSTEM table of n rows: the second row's id, the first two rows'
\* names and cities are the parameters; wcols are the columns besides STATE_CODE.
WsTable(id2, nm1, nm2, c1, c2, n, wcols) ==
    Project([cols |-> {"pwsid", "pws_name", "city_name", "state_code"},
             rows |-> SubSeq(<<WsRow(ID1, nm1, c1), WsRow(id2, nm2, c2),
                               WsRow(ID3, NameAb, CityY)>>, 1, n)],
            wcols \cup {"state_code"})

\* A GEOGRAPHIC_AREA table: two rows for ID1 (the first one with the values
\* p1, p2), one for ID2, one for ID3.
GaTable(p1, p2, gcols) ==
    Project([cols |-> {"pwsid", "county_served", "city_served"},
             rows |-> <<GaRow(ID1, p1, p2), GaRow(ID1, CountyK, CityY),
                        GaRow(ID2, CountyQ, CityXk), GaRow(ID3, CountyK, NULL)>>],
            gcols)

AllWsCols == {"pwsid", "pws_name", "city_name"}
AllGaCols == {"pwsid", "county_served", "city_served"}
BaseWs == WsTable(ID2, NameAb, NameB, CityPadX, NULL, 3, AllWsCols)
BaseGa == GaTable(NULL, Blank, AllGaCols)

\* The requests that may fail
DownPool ==
    { {},
      {<<<<"WATER_SYSTEM", "state_code", AK>>, 0>>},
      {<<<<"WATER_SYSTEM", "state_code", AK>>, 1>>},
      {<<"GEOGRAPHIC_AREA", "pwsid", ID1>>},
      {<<"GEOGRAPHIC_AREA", "pwsid", ID2>>, <<"VIOLATION", "pwsid", ID2>>},
      {<<<<"GEOGRAPHIC_AREA">>, 0>>},
      {<<<<"GEOGRAPHIC_AREA">>, 1>>} }

World(ws, ga, dn) == [ws |-> ws, ga |-> ga, down |-> dn]

\* The worlds: the base tables with one group of fields varied at a time
Worlds ==
    {World(WsTable(ID2, a, b, CityPadX, NULL, 3, AllWsCols), BaseGa, {}) :
        a \in NamePool, b \in NamePool}
    \cup {World(WsTable(ID2, NameAb, NameB, a, b, 3, AllWsCols), BaseGa, {}) :
        a \in CityPool, b \in CityPool}
    \cup {World(WsTable(i, NameAb, NameB, CityPadX, NULL, n, AllWsCols), BaseGa, {}) :
        i \in IdPool, n \in 0..3}
    \cup {World(WsTable(ID2, NameAb, NameB, CityPadX, NULL, 3, c), BaseGa, {}) :
        c \in WsColPool}
    \cup {World(BaseWs, GaTable(a, b, AllGaCols), {}) : a \in PlacePool, b \in PlacePool}
    \cup {World(BaseWs, GaTable(NULL, Blank, c), {}) : c \in GaColPool}
    \cup {World(BaseWs, BaseGa, d) : d \in DownPool}

NameQueries == {<<>>, <<"-">>, <<"a">>, <<"B"," ","a">>, <<"n">>}
LocQueries == {<<>>, Blank, <<"x">>, <<"K"," ">>, <<"z">>, <<"o","n">>}
TypedKeys == {ZZ9999999, <<" ">> \o Lower(ID1), BADID, <<>>}
CliQueries == {Lower(AK), CA, <<"A","1">>, Lower(ID2)}
CliPicks == {0, 1, 3}

(***************************************************************************)
(* The state machine                                                       *)
(***************************************************************************)
NoCache == [x \in {} |-> EmptyFrame]

Event(op, args, raised, path, result, info, invalid, wsReqs, gaCalls, gaReqs, bKey, bReqs, rep) ==
    [op |-> op, args |-> args, raised |-> raised, path |-> path, result |-> result,
     info |-> info, invalid |-> invalid, wsReqs |-> wsReqs, gaCalls |-> gaCalls,
     gaReqs |-> gaReqs, bundleKey |-> bKey, bundleReqs |-> bReqs, repeat |-> rep]

Quiet(op, args, raised, path, wsReqs) ==
    Event(op, args, raised, path, EmptyFrame, FALSE, FALSE, wsReqs, 0, <<>>, NULL, <<>>, FALSE)

\* The network: certificate validation works or fails for every request, and
\* a request that is down is refused, answered with an error status, or
\* answered with JSON that is not a list
NetOk == [cert |-> TRUE, kind |-> "connect"]
Nets ==
    {NetOk, [cert |-> FALSE, kind |-> "connect"], [cert |-> TRUE, kind |-> "status"],
     [cert |-> TRUE, kind |-> "malformed"]}
\* The base tables with each set of failing requests
FaultWorlds == {World(BaseWs, BaseGa, d) : d \in DownPool}

\* The app and the CLI before their first operation
Fresh ==
    /\ wsCache = NoCache
    /\ gaCache = <<>>
    /\ bundleCache = <<>>
    /\ state = AK
    /\ matches = EmptyFrame
    /\ ev = Quiet("init", <<>>, FALSE, "init", <<>>)
    /\ produced = {}

Init ==
    /\ \E w \in Worlds :
          remoteWS = w.ws /\ remoteGA = w.ga /\ down = w.down /\ net = NetOk
    /\ Fresh
    /\ nops = MaxOps

\* Every interaction with the app reruns the script, which first warms the
\* WATER_SYSTEM cache of the selected state (line 169); if that raises, the
\* run ends there.
Warm(st) == cached_ws_by_state(wsCache, st)

AppStep == ev.op # "cli" /\ nops > 0 /\ nops' = nops - 1

\* The keys the three caches hold
CachedKeys ==
    {<<"ws", k>> : k \in DOMAIN wsCache}
        \cup {<<"ga", gaCache[i].k>> : i \in DOMAIN gaCache}
        \cup {<<"bundle", bundleCache[i].k>> : i \in DOMAIN bundleCache}
\* The keys produced so far: those of before and those the caches hold now;
\* none after a clear or an expiry
Tracked ==
    produced' = IF ev'.path \in {"clear", "expire"} THEN {} ELSE produced \cup CachedKeys'

Aborted(op, args, w) ==
    /\ wsCache' = w.cache
    /\ ev' = Quiet(op, args, TRUE, "warmup", w.reqs)
    /\ UNCHANGED <<gaCache, bundleCache, matches>>

\* The State selectbox changes (or the page loads)
SelectState(st) ==
    /\ AppStep
    /\ \E w \in {Warm(st)} :
          /\ state' = st
          /\ wsCache' = w.cache
          /\ ev' = Quiet("select", <<st>>, w.raised, "warmup", w.reqs)
    /\ UNCHANGED <<remoteWS, remoteGA, down, net, gaCache, bundleCache, matches>>
    /\ Tracked

\* The search ran: its caches, the matches kept in the session, the event
Searched(args, w, r) ==
    /\ wsCache' = r.wsCache
    /\ gaCache' = r.gaCache
    /\ matches' = IF r.raised THEN matches
                  ELSE IF IsEmpty(r.result) THEN EmptyFrame ELSE r.result
    /\ ev' = Event("search", args, r.raised, r.path, r.result, r.info, FALSE,
                   w.reqs \o r.wsReqs, r.gaCalls, r.gaReqs, NULL, <<>>,
                   ev.op = "search" /\ ev.args = args /\ ~ev.raised /\ ev.path # "warning")
    /\ UNCHANGED bundleCache

\* The Search button
Search(name, county_city) ==
    /\ AppStep
    /\ \E w \in {Warm(state)} :
          IF w.raised THEN Aborted("search", <<state, name, county_city>>, w)
          ELSE IF Strip(name) = <<>> /\ Strip(county_city) = <<>>
          THEN /\ wsCache' = w.cache
               /\ ev' = Quiet("search", <<state, name, county_city>>, FALSE, "warning", w.reqs)
               /\ UNCHANGED <<gaCache, bundleCache, matches>>
          ELSE \E r \in {fast_search(w.cache, gaCache, state, name, county_city)} :
                  Searched(<<state, name, county_city>>, w, r)
    /\ UNCHANGED <<remoteWS, remoteGA, down, net, state>>
    /\ Tracked

\* The report section: the bundle of the chosen PWSID through the cache
Report(op, args, w, pwsid) ==
    \E b \in {cached_fetch_all_selected(bundleCache, pwsid)} :
        /\ wsCache' = w.cache
        /\ bundleCache' = b.cache
        /\ ev' = Event(op, args, FALSE, "report", EmptyFrame, FALSE, FALSE, w.reqs, 0, <<>>,
                       pwsid, b.reqs, FALSE)
        /\ UNCHANGED <<gaCache, matches>>

\* The key is refused: st.error, no report
Refused(op, args, w, pid) ==
    /\ wsCache' = w.cache
    /\ ev' = Event(op, args, FALSE, "invalid", EmptyFrame, FALSE, TRUE, w.reqs, 0, <<>>,
                   pid, <<>>, FALSE)
    /\ UNCHANGED <<gaCache, bundleCache, matches>>

\* PWSID mode: the Generate report button
ReportTyped(p) ==
    /\ AppStep
    /\ \E w \in {Warm(state)}, pid \in {Upper(Strip(p))} :
          IF w.raised THEN Aborted("typed", <<p>>, w)
          ELSE IF ~looks_like_pwsid(pid) THEN Refused("typed", <<p>>, w, pid)
          ELSE Report("typed", <<p>>, w, pid)
    /\ UNCHANGED <<remoteWS, remoteGA, down, net, state>>
    /\ Tracked

\* Name mode: one row of the matches is ticked, Generate report for selected
ReportSelected(i) ==
    /\ AppStep
    /\ i \in DOMAIN matches.rows
    /\ \E w \in {Warm(state)} :
          IF w.raised THEN Aborted("selected", <<i>>, w)
          ELSE Report("selected", <<i>>, w, AsStr(matches.rows[i]["PWSID"]))
    /\ UNCHANGED <<remoteWS, remoteGA, down, net, state>>
    /\ Tracked

\* Developer tools: a Clear button that leaves the Location entries in place
ClearCache_KeepsLocations ==
    /\ AppStep
    /\ \E w \in {Warm(state)} :
          IF w.raised THEN Aborted("clear", <<>>, w)
          ELSE /\ wsCache' = NoCache
               /\ bundleCache' = <<>>
               /\ ev' = Quiet("clear", <<>>, FALSE, "clear", w.reqs)
               /\ UNCHANGED <<gaCache, matches>>
    /\ UNCHANGED <<remoteWS, remoteGA, down, net, state>>
    /\ Tracked

\* Developer tools: Clear app cache (st.cache_data.clear() at the end of the run)
ClearCache ==
    /\ AppStep
    /\ \E w \in {Warm(state)} :
          IF w.raised THEN Aborted("clear", <<>>, w)
          ELSE /\ wsCache' = NoCache
               /\ gaCache' = <<>>
               /\ bundleCache' = <<>>
               /\ ev' = Quiet("clear", <<>>, FALSE, "clear", w.reqs)
               /\ UNCHANGED matches
    /\ UNCHANGED <<remoteWS, remoteGA, down, net, state>>
    /\ Tracked

\* Twelve hours pass: every entry is older than its ttl
TtlExpire ==
    /\ AppStep
    /\ wsCache' = NoCache
    /\ gaCache' = <<>>
    /\ bundleCache' = <<>>
    /\ ev' = Quiet("expire", <<>>, FALSE, "expire", <<>>)
    /\ UNCHANGED <<remoteWS, remoteGA, down, net, state, matches>>
    /\ Tracked

\* The service comes back
Recover ==
    /\ AppStep
    /\ down # {}
    /\ down' = {}
    /\ ev' = Quiet("recover", <<>>, FALSE, "recover", <<>>)
    /\ UNCHANGED <<remoteWS, remoteGA, net, wsCache, gaCache, bundleCache, state, matches>>
    /\ Tracked

\* main() after the search: the pick and the bundle of the picked row
CliPicked(args, r, pick) ==
    IF ~IsEmpty(r.result) /\ pick < Len(r.result.rows)
    THEN Event("cli", args, FALSE, r.path, r.result, FALSE, FALSE, r.wsReqs, 0, r.gaReqs,
               r.result.rows[pick + 1]["PWSID"],
               fetch_all_selected(r.result.rows[pick + 1]["PWSID"]).reqs, FALSE)
    ELSE Event("cli", args, FALSE, r.path, r.result, FALSE, FALSE, r.wsReqs, 0, r.gaReqs,
               NULL, <<>>, FALSE)

\* One run of the CLI (main): a process of its own, with cold lru caches
CliMain(query, name, county, pick) ==
    /\ ev.op = "init"
    /\ nops > 0
    /\ nops' = nops - 1
    /\ \E q \in {Strip(query)}, args \in {<<query, name, county, pick>>} :
          IF looks_like_pwsid(q)
          THEN ev' = Event("cli", <<query>>, FALSE, "direct", EmptyFrame, FALSE, FALSE, <<>>, 0,
                           <<>>, Upper(q), fetch_all_selected(Upper(q)).reqs, FALSE)
          ELSE IF ~IsStateCode(Upper(q))
          THEN ev' = Event("cli", <<query>>, FALSE, "badstate", EmptyFrame, FALSE, TRUE, <<>>, 0,
                           <<>>, NULL, <<>>, FALSE)
          ELSE \E r \in {search_by_name(Upper(q), Strip(name),
                                        IF Strip(county) = <<>> THEN NULL ELSE Strip(county))} :
                  ev' = CliPicked(args, r, pick)
    /\ UNCHANGED <<remoteWS, remoteGA, down, net, wsCache, gaCache, bundleCache, state, matches,
                 produced>>

Next ==
    \/ \E st \in STATES : SelectState(st)
    \/ \E name \in NameQueries, loc \in LocQueries : Search(name, loc)
    \/ \E p \in TypedKeys : ReportTyped(p)
    \/ \E i \in 1..3 : ReportSelected(i)
    \/ ClearCache
    \/ TtlExpire
    \/ Recover
    \/ \E q \in CliQueries, name \in NameQueries, loc \in LocQueries, pick \in CliPicks :
           CliMain(q, name, loc, pick)

Spec == Init /\ [][Next]_vars

(***************************************************************************)
(* The app and the CLI on the base tables, with every way of failing       *)
(***************************************************************************)
FaultInit ==
    /\ \E w \in FaultWorlds, n \in Nets :
          /\ n.kind # "connect" => w.down # {}
          /\ remoteWS = w.ws /\ remoteGA = w.ga /\ down = w.down /\ net = n
    /\ Fresh
    /\ nops = MaxOps

FaultSpec == FaultInit /\ [][Next]_vars

(***************************************************************************)
(* Longer runs of the app alone, on the base tables, for the caches        *)
(***************************************************************************)
CacheNameQueries == {<<>>, <<"a">>}
CacheLocQueries == {<<"x">>, <<"K", " ">>}
CacheTypedKeys == {ZZ9999999, <<" ">> \o Lower(ID1), ID2}

CacheInit ==
    /\ remoteWS = BaseWs /\ remoteGA = BaseGa /\ down = {} /\ net = NetOk
    /\ Fresh
    /\ nops = MaxCacheOps

CacheNext ==
    \/ \E st \in STATES : SelectState(st)
    \/ \E name \in CacheNameQueries, loc \in CacheLocQueries : Search(name, loc)
    \/ \E p \in CacheTypedKeys : ReportTyped(p)
    \/ \E i \in 1..3 : ReportSelected(i)
    \/ ClearCache
    \/ TtlExpire

CacheSpec == CacheInit /\ [][CacheNext]_vars

(***************************************************************************)
(* Searches of the app on Location rows whose first values vary            *)
(***************************************************************************)
PlaceInit ==
    /\ remoteWS = BaseWs
    /\ \E a, b \in PlacePool \cup {CountyQ} : remoteGA = GaTable(a, b, AllGaCols)
    /\ down = {} /\ net = NetOk
    /\ Fresh
    /\ nops = MaxOps

PlaceNext ==
    \E name \in CacheNameQueries, loc \in CacheLocQueries \cup {<<"q">>} : Search(name, loc)

PlaceSpec == PlaceInit /\ [][PlaceNext]_vars

(***************************************************************************)
(* Longer runs of the app on a service that fails and comes back           *)
(***************************************************************************)
NegInit ==
    /\ remoteWS = BaseWs /\ remoteGA = BaseGa
    /\ down \in {d \in DownPool : \E r \in d : Len(r) = 3 \/ Len(r[1]) = 3}
    /\ net \in {n \in Nets : n.cert}
    /\ Fresh
    /\ nops = MaxCacheOps

NegNext ==
    \/ \E loc \in CacheLocQueries : Search(<<>>, loc)
    \/ \E p \in CacheTypedKeys : ReportTyped(p)
    \/ ClearCache
    \/ TtlExpire
    \/ Recover

NegSpec == NegInit /\ [][NegNext]_vars

(***************************************************************************)
(* What the claims speak of                                                *)
(***************************************************************************)
\* The last operation was a search that returned a table: the app's Search
\* button past its warning, or a run of the CLI that searched
AppSearched == ev.op = "search" /\ ev.path \notin {"warning", "warmup"}
CliSearched == ev.op = "cli" /\ ev.path \notin {"direct", "badstate"}
SearchReturned == (AppSearched \/ CliSearched) /\ ~ev.raised
StateOf == Upper(Strip(ev.args[1]))
NameQueryOf == ev.args[2]
LocQueryOf == ev.args[3]
HasLocQuery == Strip(LocQueryOf) # <<>>
Term == Lower(Strip(LocQueryOf))

\* The System rows the search pulled (the app reads them from its cache)
CliWs ==
    Only({IF "PWSID" \in ws0.cols
          THEN drop_duplicates(Project(ws0, {"PWSID", "PWS_NAME", "CITY_NAME"} \cap ws0.cols),
                               "PWSID")
          ELSE ws0 : ws0 \in {ws_by_state(StateOf).df}})
PulledWs ==
    IF ev.op = "search" THEN (IF state \in DOMAIN wsCache THEN wsCache[state] ELSE EmptyFrame)
    ELSE CliWs

\* The surviving candidates: the pulled rows the name filter keeps
Survivors == Only({NameFilter(ws, NameQueryOf) : ws \in {PulledWs}})
SurvivorIds ==
    IF "PWSID" \in Survivors.cols
    THEN {Survivors.rows[i]["PWSID"] : i \in DOMAIN Survivors.rows} ELSE {}
Candidates ==
    IF "PWSID" \in Survivors.cols
    THEN [i \in DOMAIN Survivors.rows |-> AsStr(Survivors.rows[i]["PWSID"])] ELSE <<>>

\* The System row of a result row: the first surviving row with its key
SystemRowOf(pid) ==
    Survivors.rows[CHOOSE i \in DOMAIN Survivors.rows :
                      /\ Survivors.rows[i]["PWSID"] = pid
                      /\ \A j \in 1..(i - 1) : Survivors.rows[j]["PWSID"] # pid]
SystemCityOf(pid) ==
    IF "CITY_NAME" \in Survivors.cols THEN SystemRowOf(pid)["CITY_NAME"] ELSE NULL
Present(v) == v # NULL /\ Strip(v) # <<>>

\* text holds the token, ignoring case; a missing text holds nothing
HoldsToken(text, token) == text # NULL /\ Contains(Lower(text), Lower(token))
\* the same on the text form of a value, where a missing value reads "None"
TextHolds(v, token) == Contains(Lower(AsStr(v)), Lower(token))

\* The same search with an empty location query
NameOnlyResult ==
    IF ev.op = "search" THEN fast_search(wsCache, gaCache, state, NameQueryOf, <<>>).result
    ELSE search_by_name(StateOf, Strip(NameQueryOf), NULL).result

PlaceCols == {"county_served", "city_served"} \cap remoteGA.cols
\* The Location rows of the surviving candidates
SurvivorPlaces ==
    {i \in DOMAIN remoteGA.rows :
        "pwsid" \in remoteGA.cols /\ remoteGA.rows[i]["pwsid"] \in SurvivorIds}
\* The Location rows of the jurisdiction: the key starts with the state code
\* or is a surviving candidate's
JurisdictionPlaces ==
    {i \in DOMAIN remoteGA.rows :
        \/ "pwsid" \notin remoteGA.cols
        \/ StartsWith(AsStr(remoteGA.rows[i]["pwsid"]), StateOf)
        \/ remoteGA.rows[i]["pwsid"] \in SurvivorIds}

(***************************************************************************)
(* C1                                                                      *)
(***************************************************************************)
\* C1: every row a search returns (fast_search and search_by_name, on every
\* return path) for a name query with at least one token has a Name that
\* holds every token, ignoring case.
C1_NamesHoldTokens ==
    (SearchReturned /\ Tokenize(NameQueryOf) # <<>>) =>
        \A i \in DOMAIN ev.result.rows :
            \A k \in DOMAIN Tokenize(NameQueryOf) :
                HoldsToken(ev.result.rows[i]["PWS_NAME"], Tokenize(NameQueryOf)[k])

JoinReturned == SearchReturned /\ ev.path = "join"

FetchKeys == [i \in DOMAIN ev.gaReqs |-> ev.gaReqs[i][3]]
FirstCandidates ==
    IF Len(Candidates) > max_ga_candidates THEN SubSeq(Candidates, 1, max_ga_candidates)
    ELSE Candidates
LocatedSearch == AppSearched /\ ~ev.raised /\ HasLocQuery /\ ev.path \in {"fallback", "join"}

\* C5: a fast_search with a location query issues at most max_ga_candidates
\* detail fetches, each for one of the first max_ga_candidates candidates;
\* from a cold cache with more name-filtered candidates than the cap it
\* issues exactly max_ga_candidates fetches, for the first max_ga_candidates
\* candidates in list order.
C5_FetchesCapped ==
    [][LocatedSearch' =>
           \A keys \in {FetchKeys'}, all \in {Candidates'} :
               /\ Len(keys) <= max_ga_candidates
               /\ \A i \in DOMAIN keys :
                      \E j \in DOMAIN all : j <= max_ga_candidates /\ all[j] = keys[i]
               /\ (gaCache = <<>> /\ Len(all) > max_ga_candidates) =>
                      /\ Len(keys) = max_ga_candidates
                      /\ keys = SubSeq(all, 1, max_ga_candidates)]_vars

\* A search from a cold cache over more candidates than the cap that issued
\* exactly max_ga_candidates fetches and looked no further
C5_Witness ==
    /\ LocatedSearch /\ nops = MaxOps - 1
    /\ Len(Candidates) > max_ga_candidates
    /\ Len(FetchKeys) = max_ga_candidates
    /\ FetchKeys = FirstCandidates
    /\ ev.gaCalls = max_ga_candidates

(***************************************************************************)
(* C6                                                                      *)
(***************************************************************************)
\* C6: a fast_search with a location query surfaces the truncation note
\* exactly when the name-filtered candidates are more than the cap, on the
\* join path and on the fallback path alike.
C6_NoteWheneverCapped ==
    LocatedSearch => (ev.info <=> Len(Candidates) > max_ga_candidates)

(***************************************************************************)
(* C7                                                                      *)
(***************************************************************************)
\* ^[A-Z]{2}\d{7}$
StrictKey(s) ==
    /\ Len(s) = 9
    /\ \A i \in 1..2 : IsUpper(s[i])
    /\ \A i \in 3..9 : IsDigit(s[i])
\* The per-key requests of the last operation: the Location detail fetches of
\* the app's search and the requests of a detail bundle
KeyRequests == (IF ev.op = "search" THEN ev.gaReqs ELSE <<>>) \o ev.bundleReqs

\* C7: every per-key remote request is for a key of the format two uppercase
\* letters and seven digits, whether the key was typed or taken from a
\* remote System row, and an operation that reports its key as invalid
\* issues no per-key request.
C7_RequestsOnlyForCheckedKeys ==
    /\ \A i \in DOMAIN KeyRequests : StrictKey(KeyRequests[i][3])
    /\ ev.invalid => KeyRequests = <<>>

(***************************************************************************)
(* C8                                                                      *)
(***************************************************************************)
TypedZZ == ev.op = "typed" /\ ev.args = <<ZZ9999999>> /\ ~ev.raised
BundleRequests(pid) == [i \in DOMAIN TABLES |-> <<TABLES[i], "pwsid", pid>>]

\* C8 as stated: the key "ZZ9999999" submitted for a report is refused as
\* invalid and causes no remote call.
C8_ZZRefused == TypedZZ => (ev.invalid /\ ev.bundleReqs = <<>>)

\* C8: the key "ZZ9999999" submitted for a report has the format of a key
\* (two letters, seven digits) and is accepted: no InvalidKey, and the
\* detail bundle is fetched for it, one request per configured table, unless
\* its bundle is in the cache.
C8_ZZAccepted ==
    [][TypedZZ' =>
           /\ ~ev'.invalid
           /\ ev'.path = "report"
           /\ ev'.bundleKey = ZZ9999999
           /\ ev'.bundleReqs = IF CacheHas(bundleCache, ZZ9999999) THEN <<>>
                               ELSE BundleRequests(ZZ9999999)]_vars

\* "ZZ9999999" was submitted and one request per table went out for it
C8_Witness ==
    /\ TypedZZ /\ ~ev.invalid
    /\ ev.bundleReqs = BundleRequests(ZZ9999999)
    /\ CacheHas(bundleCache, ZZ9999999)

(***************************************************************************)
(* C9                                                                      *)
(***************************************************************************)
\* The pull of the jurisdiction's System rows gave no row
NoSystemRows ==
    IF ev.op = "search" THEN state \in DOMAIN wsCache /\ wsCache[state].rows = <<>>
    ELSE ws_by_state(StateOf).df.rows = <<>>

\* C9: when the pull of a jurisdiction's System rows gives no row (the
\* remote holds none, or the fetch failed), a search with any name query and
\* any location query returns an empty result, raises nothing and issues no
\* Location request.
C9_EmptyPullEmptyResult ==
    ((AppSearched \/ CliSearched) /\ NoSystemRows) =>
        /\ ~ev.raised
        /\ ev.result.rows = <<>>
        /\ IsEmpty(ev.result)
        /\ ev.gaReqs = <<>>
        /\ ev.gaCalls = 0

\* A search with a name and a location query in a jurisdiction whose pull
\* failed on its first page
C9_Witness ==
    /\ AppSearched /\ NoSystemRows /\ HasLocQuery /\ Tokenize(NameQueryOf) # <<>>
    /\ remoteWS.rows # <<>> /\ state = AK
    /\ <<<<"WATER_SYSTEM", "state_code", AK>>, 0>> \in down
    /\ IsEmpty(ev.result) /\ ~ev.raised

(***************************************************************************)
(* C10                                                                     *)
(***************************************************************************)
\* C10: a search with an empty or blank location query issues no Location
\* request and makes no Location cache lookup, and the City of every row it
\* returns is the city of the row's System row (trimmed; empty when absent).
C10_NoLocationAccess ==
    ((AppSearched \/ CliSearched) /\ ~HasLocQuery) =>
        /\ ev.gaReqs = <<>>
        /\ ev.gaCalls = 0
        /\ ~ev.raised =>
              /\ "COUNTY_SERVED" \notin ev.result.cols
              /\ "CITY" \in ev.result.cols =>
                    \A i \in DOMAIN ev.result.rows :
                        ev.result.rows[i]["CITY"] =
                            Strip(FillNa(SystemCityOf(ev.result.rows[i]["PWSID"])))

\* A search with a blank location query returned rows with a City while the
\* Location cache stayed empty
C10_Witness ==
    /\ AppSearched /\ ~ev.raised /\ LocQueryOf = Blank
    /\ "CITY" \in ev.result.cols
    /\ \E i \in DOMAIN ev.result.rows : ev.result.rows[i]["CITY"] # <<>>
    /\ gaCache = <<>>
    /\ ev.gaCalls = 0

(***************************************************************************)
(* C11                                                                     *)
(***************************************************************************)
\* The fetches of the three kinds, each with the remote rows it is after
FetchCases ==
    {[tbl |-> FilterRows(remoteWS, "state_code", st),
      got |-> pull_rows_filtered("WATER_SYSTEM", "state_code", st)] : st \in STATES}
    \cup {[tbl |-> remoteGA, got |-> pull_rows_paged("GEOGRAPHIC_AREA")]}
    \cup {[tbl |-> FilterRows(RemoteTable(t), "pwsid", AsStr(id)),
           got |-> fetch_table_by_pwsid(t, id)] : t \in Range(TABLES), id \in {ID1, ID2, ID3}}

\* The rows of the pages before the i-th request of a fetch
PagesBefore(tbl, i) ==
    IF i = 1 \/ tbl.rows = <<>> THEN EmptyFrame
    ELSE df_upper([cols |-> tbl.cols,
                   rows |-> SubSeq(tbl.rows, 1,
                                   IF PAGE_SIZE * (i - 1) < Len(tbl.rows)
                                   THEN PAGE_SIZE * (i - 1) ELSE Len(tbl.rows))])

\* The requests of the last operation
EvReqs == ev.wsReqs \o ev.gaReqs \o ev.bundleReqs
EvFailed == \E i \in DOMAIN EvReqs : Failed(EvReqs[i])

\* C11 as stated: a fetch in which a request fails returns an empty record
\* sequence, whichever page fails.
C11_FailedFetchEmpty ==
    \A f \in FetchCases :
        (\E i \in DOMAIN f.got.reqs : Failed(f.got.reqs[i])) => IsEmpty(f.got.df)

\* The fetches are looked at where the tables and the failing requests are
\* new: at the start and when the service recovers.
\* C11: a fetch in which a request fails after the TLS fallback never raises
\* to its caller; the failed request is the last one the fetch makes, and the
\* fetch returns the rows of the pages received before it: an empty record
\* sequence when the first page (or the one request of a primary-key fetch)
\* fails, the earlier pages when a later page fails.
C11_FailedFetchKeepsEarlierPages ==
    /\ ev.op \in {"init", "recover"} =>
          \A f \in FetchCases : \A i \in DOMAIN f.got.reqs :
              Failed(f.got.reqs[i]) =>
                  /\ i = Len(f.got.reqs)
                  /\ f.got.df = PagesBefore(f.tbl, i)
    /\ EvFailed => ~ev.raised

\* The System pull of an operation of the app failed on its second page and
\* kept the first page
C11_Witness ==
    /\ ev.op \in {"search", "select"} /\ ~ev.raised
    /\ Len(ev.wsReqs) = 2 /\ Failed(ev.wsReqs[2])
    /\ state \in DOMAIN wsCache
    /\ Len(wsCache[state].rows) = PAGE_SIZE

(***************************************************************************)
(* C12                                                                     *)
(***************************************************************************)
\* The connections one request tries, in order, over its _session.get calls
Attempts(req) ==
    IF Len(api_get_json(req).gets) = 1 THEN api_get_json(req).gets[1]
    ELSE api_get_json(req).gets[1] \o api_get_json(req).gets[2]

\* No unvalidated attempt before the validated ones are over and have failed
ValidatedFirst(a) ==
    /\ a[1].verify
    /\ \A i \in DOMAIN a : ~a[i].verify => \A j \in 1..(i - 1) : ~a[j].ok

\* C12 as stated: every remote request makes at most two attempts in total,
\* the first certificate-validated, an unvalidated one only after the
\* validated one failed and at most once.
C12_AtMostTwoAttempts ==
    \A i \in DOMAIN EvReqs :
        /\ Len(Attempts(EvReqs[i])) <= 2
        /\ ValidatedFirst(Attempts(EvReqs[i]))

\* C12: every remote request makes at most two calls of the session: the
\* first certificate-validated, the second without certificate validation and
\* only after the validated call failed; after the second failure the request
\* gives up.  Each call tries its connection once and, when the connection
\* cannot be made, up to ADAPTER_RETRIES more times, so a request makes at
\* most 2 * (1 + ADAPTER_RETRIES) attempts; the first attempt is validated
\* and no unvalidated attempt follows a validated success.
C12_AtMostTwoCalls ==
    \A i \in DOMAIN EvReqs :
        \A r \in {api_get_json(EvReqs[i])} :
            /\ Len(r.gets) \in {1, 2}
            /\ \A k \in DOMAIN r.gets[1] : r.gets[1][k].verify
            /\ Len(r.gets) = 2 =>
                  /\ ~Got(r.gets[1])
                  /\ \A k \in DOMAIN r.gets[2] : ~r.gets[2][k].verify
            /\ \A g \in DOMAIN r.gets :
                  /\ Len(r.gets[g]) \in 1..(1 + ADAPTER_RETRIES)
                  /\ \A k \in 1..(Len(r.gets[g]) - 1) : ~r.gets[g][k].ok
            /\ r.raised = ~Got(r.gets[Len(r.gets)])
            /\ Len(Attempts(EvReqs[i])) <= 2 * (1 + ADAPTER_RETRIES)
            /\ ValidatedFirst(Attempts(EvReqs[i]))

\* An operation made a request whose validated call used up its retries on a
\* certificate that fails, and whose unvalidated call was answered
C12_Witness ==
    /\ ev.op \in {"search", "select", "report"}
    /\ \E i \in DOMAIN EvReqs :
          /\ ~Failed(EvReqs[i])
          /\ Len(api_get_json(EvReqs[i]).gets) = 2
          /\ Len(Attempts(EvReqs[i])) = 1 + ADAPTER_RETRIES + 1

(***************************************************************************)
(* C13                                                                     *)
(***************************************************************************)
\* The keys of one key space, as the text a request carries
KeysOf(keys, space) == {AsStr(p[2]) : p \in {q \in keys : q[1] = space}}
\* The keys whose producer the step invokes: the producer of a key runs
\* exactly when its requests are issued
InvokedWs == IF ev'.wsReqs # <<>> THEN {state'} ELSE {}
InvokedGa == {ev'.gaReqs[i][3] : i \in DOMAIN ev'.gaReqs}
InvokedBundle == IF ev'.bundleReqs # <<>> THEN {ev'.bundleKey} ELSE {}
\* The step neither clears the caches nor lets them expire
KeepsEntries == ev'.path \notin {"clear", "expire"}

\* C13 as stated: in every key space, a key produced since the last clear or
\* expiry is never produced again.
C13_NeverProducedAgain ==
    [][/\ InvokedWs \cap KeysOf(produced, "ws") = {}
       /\ InvokedGa \cap KeysOf(produced, "ga") = {}
       /\ InvokedBundle \cap KeysOf(produced, "bundle") = {}]_vars

\* C13: in every key space and after any sequence of memoized calls, a call
\* with a key the cache holds never re-invokes the producer; an entry leaves
\* its cache only by a clear, by expiry, or, in the two capacity-bounded
\* spaces, when a new key is stored into the full cache; so a key of the
\* per-jurisdiction System pull, once produced, is not produced again before
\* a clear or expiry, and a per-SystemID key is produced again only after
\* such an eviction.
C13_ProducedAgainOnlyAfterEviction ==
    [][/\ InvokedWs \cap KeysOf(CachedKeys, "ws") = {}
       /\ InvokedGa \cap KeysOf(CachedKeys, "ga") = {}
       /\ InvokedBundle \cap KeysOf(CachedKeys, "bundle") = {}
       /\ InvokedWs \cap KeysOf(produced, "ws") = {}
       /\ KeepsEntries =>
             \A key \in CachedKeys \ CachedKeys' :
                 \/ key[1] = "ga" /\ Len(gaCache') = GA_MAX_ENTRIES
                                  /\ Len(gaCache) = GA_MAX_ENTRIES
                 \/ key[1] = "bundle" /\ Len(bundleCache') = BUNDLE_MAX_ENTRIES
                                      /\ Len(bundleCache) = BUNDLE_MAX_ENTRIES
       /\ (InvokedGa \cap KeysOf(produced, "ga") # {}) =>
             Cardinality(KeysOf(produced, "ga")) >= GA_MAX_ENTRIES
       /\ (InvokedBundle \cap KeysOf(produced, "bundle") # {}) =>
             Cardinality(KeysOf(produced, "bundle")) > BUNDLE_MAX_ENTRIES]_vars

\* The third operation is a report answered from the cache, with no request
\* at all, after the bundle of another key was produced and evicted
C13_Witness ==
    /\ nops = 0
    /\ ev.op \in {"typed", "selected"} /\ ev.path = "report"
    /\ ev.wsReqs = <<>> /\ ev.bundleReqs = <<>>
    /\ ev.bundleKey \in KeysOf(CachedKeys, "bundle")
    /\ Cardinality(KeysOf(produced, "bundle")) = BUNDLE_MAX_ENTRIES + 1

(***************************************************************************)
(* C14                                                                     *)
(***************************************************************************)
\* C14: after an explicit cache clear every entry of every key space is
\* gone, although no ttl has expired: the three caches hold no key, and the
\* next operation re-invokes the producer of every key it calls for: the
\* System pull of its warm-up, one Location fetch for every Location lookup
\* of a search, and the table fetches of a report, whether or not the key
\* was cached before the clear.
C14_ClearInvalidatesAll ==
    [][(ev.path = "clear" /\ ev'.op \in {"select", "search", "typed", "selected", "clear"}) =>
           /\ CachedKeys = {}
           /\ ev'.wsReqs # <<>>
           /\ Len(ev'.gaReqs) = ev'.gaCalls
           /\ ev'.path = "report" => Len(ev'.bundleReqs) = Len(TABLES)]_vars

\* A search on the county/city path, then the clear: the run of the clear
\* still found the System rows in the cache, and after it the System pull,
\* the Location fetch and the bundle of a system of that search are all
\* requested again
C14_Witness ==
    /\ nops = MaxCacheOps - 2
    /\ ev.path = "clear" /\ ev.wsReqs = <<>>
    /\ "COUNTY_SERVED" \in matches.cols /\ matches.rows # <<>>
    /\ CachedKeys = {}
    /\ cached_ws_by_state(wsCache, state).reqs # <<>>
    /\ \A i \in DOMAIN matches.rows :
          /\ cached_ga_by_pwsid(gaCache, matches.rows[i]["PWSID"]).reqs # <<>>
          /\ cached_fetch_all_selected(bundleCache, AsStr(matches.rows[i]["PWSID"])).reqs # <<>>

(***************************************************************************)
(* C15                                                                     *)
(***************************************************************************)
\* The SystemIDs of the rows a search returned
ResultIds ==
    IF "PWSID" \in ev.result.cols
    THEN {ev.result.rows[i]["PWSID"] : i \in DOMAIN ev.result.rows} ELSE {}
\* The remote System rows of the jurisdiction with the key pid
PulledRowsOf(pid) ==
    {i \in DOMAIN remoteWS.rows :
        /\ "pwsid" \in remoteWS.cols /\ remoteWS.rows[i]["pwsid"] = pid
        /\ "state_code" \in remoteWS.cols /\ remoteWS.rows[i]["state_code"] = StateOf}
\* The remote Location rows of pid that hold the location term
MatchingPlacesOf(pid) ==
    {i \in DOMAIN remoteGA.rows :
        /\ "pwsid" \in remoteGA.cols /\ remoteGA.rows[i]["pwsid"] = pid
        /\ \E c \in PlaceCols : HoldsToken(remoteGA.rows[i][c], Term)}

\* C15: in every result a search returns (every return path of fast_search
\* and search_by_name), no two rows have the same SystemID, also when the
\* System pull holds duplicate rows or a system has several matching
\* Location rows.
C15_UniqueSystemID ==
    (SearchReturned /\ "PWSID" \in ev.result.cols) =>
        \A i, j \in DOMAIN ev.result.rows :
            ev.result.rows[i]["PWSID"] = ev.result.rows[j]["PWSID"] => i = j

\* A search on the county/city path returned, once, a system that the System
\* pull holds twice
C15_Witness ==
    /\ JoinReturned /\ HasLocQuery
    /\ \E pid \in ResultIds : Cardinality(PulledRowsOf(pid)) > 1

(***************************************************************************)
(* C16                                                                     *)
(***************************************************************************)
\* The remote Location rows that hold the location term and whose key is
\* not among ids
PlacesOutside(ids) ==
    {i \in DOMAIN remoteGA.rows :
        /\ "pwsid" \in remoteGA.cols /\ remoteGA.rows[i]["pwsid"] \notin ids
        /\ \E c \in PlaceCols : HoldsToken(remoteGA.rows[i][c], Term)}
\* Those whose key is that of no surviving System row
StrayPlaces == PlacesOutside(SurvivorIds)

\* C16: every row a search returns has the SystemID of a System row that the
\* jurisdiction-filtered System pull returned and the name filter kept; a
\* Location row whose SystemID has no such System row produces no row.
C16_BackingSystemRow ==
    SearchReturned =>
        \A ids \in {SurvivorIds}, got \in {ResultIds} :
            /\ got \subseteq ids
            /\ ev.result.rows # <<>> => "PWSID" \in ev.result.cols
            /\ HasLocQuery =>
                  \A i \in PlacesOutside(ids) : remoteGA.rows[i]["pwsid"] \notin got

\* The CLI's search joined the Location matches of the whole state, one of
\* them on a key without a surviving System row, and returned rows
C16_Witness ==
    /\ JoinReturned /\ ev.op = "cli" /\ HasLocQuery
    /\ StrayPlaces # {}
    /\ ev.result.rows # <<>>

(***************************************************************************)
(* C17                                                                     *)
(***************************************************************************)
\* The tables whose fetch for a key fails, and the failing Location fetch
FailedTables(key) == {t \in Range(TABLES) : Failed(<<t, "pwsid", key>>)}
GaFailed(key) == Failed(<<"GEOGRAPHIC_AREA", "pwsid", key>>)
\* The cached Location rows of a key given as text
GaCached(key) ==
    gaCache[CHOOSE i \in DOMAIN gaCache : AsStr(gaCache[i].k) = key].v
AppReported == ev.op \in {"typed", "selected"} /\ ev.path = "report"

\* C17: no single failed remote call aborts an operation of several calls.
\* A report never raises and leaves a bundle with one entry for every
\* configured table, a table whose fetch failed being empty, and when it
\* fetches it requests every table, those after a failed one included.  A
\* fast_search with a location query looks every candidate up (up to the
\* cap) whether or not an earlier fetch failed, holds a failed candidate as
\* empty Location data, gives such a candidate no county in the result, and
\* returns a result.
C17_NoAbortOnFailure ==
    /\ AppReported =>
          /\ ~ev.raised
          /\ CacheHas(bundleCache, ev.bundleKey)
          /\ DOMAIN CacheGet(bundleCache, ev.bundleKey) = Range(TABLES)
          /\ \A t \in FailedTables(ev.bundleKey) :
                 IsEmpty(CacheGet(bundleCache, ev.bundleKey)[t])
          /\ ev.bundleReqs \in {<<>>, BundleRequests(ev.bundleKey)}
    /\ (ev.op = "cli" /\ ev.bundleReqs # <<>>) =>
          ev.bundleReqs = BundleRequests(AsStr(ev.bundleKey))
    /\ LocatedSearch =>
          /\ ev.gaCalls = Len(FirstCandidates)
          /\ \A i \in DOMAIN FirstCandidates :
                 /\ FirstCandidates[i] \in KeysOf(CachedKeys, "ga")
                 /\ GaFailed(FirstCandidates[i]) =>
                       /\ IsEmpty(GaCached(FirstCandidates[i]))
                       /\ \A j \in DOMAIN ev.result.rows :
                             (/\ AsStr(ev.result.rows[j]["PWSID"]) = FirstCandidates[i]
                              /\ "COUNTY_SERVED" \in ev.result.cols) =>
                                 ev.result.rows[j]["COUNTY_SERVED"] = NULL

\* After a search whose first Location fetch failed and whose second was
\* answered and matched, a report of a key with a failed table: the tables
\* after the failed one were requested and the System table has its rows
C17_Witness ==
    /\ AppReported
    /\ "GEOGRAPHIC_AREA" \in FailedTables(ev.bundleKey)
    /\ ev.bundleReqs = BundleRequests(ev.bundleKey)
    /\ ~IsEmpty(CacheGet(bundleCache, ev.bundleKey)["WATER_SYSTEM"])
    /\ Len(gaCache) = max_ga_candidates
    /\ GaFailed(AsStr(gaCache[1].k)) /\ IsEmpty(gaCache[1].v)
    /\ ~IsEmpty(gaCache[2].v)
    /\ "COUNTY_SERVED" \in matches.cols
    /\ \E j \in DOMAIN matches.rows : matches.rows[j]["PWSID"] = gaCache[2].k

(***************************************************************************)
(* C18                                                                     *)
(***************************************************************************)
\* The expected columns the remote System rows lack
MissingWsCols == AllWsCols \ remoteWS.cols

\* C18: when the remote System rows lack any subset of the expected columns
\* (pwsid, pws_name, city_name), normalization and search complete without
\* raising, and the result of a search has no key and no name field where
\* the rows have none.
C18_MissingColumnsNeverRaise ==
    MissingWsCols # {} =>
        /\ ~ev.raised
        /\ SearchReturned =>
              /\ "pwsid" \in MissingWsCols => "PWSID" \notin ev.result.cols
              /\ "pws_name" \in MissingWsCols => "PWS_NAME" \notin ev.result.cols

(***************************************************************************)
(* C19                                                                     *)
(***************************************************************************)
\* The surviving systems whose System-table city holds the term
CityMatched == {pid \in SurvivorIds : HoldsToken(SystemCityOf(pid), Term)}
\* The surviving systems with a Location row whose county or city holds it
PlaceMatched == {pid \in SurvivorIds : MatchingPlacesOf(pid) # {}}

\* The same two sets as the searches compute them from the surviving rows
\* sv.  fast_search: the text of the System city (a missing one reads
\* "None"); of the first max_ga_candidates survivors, those whose first
\* non-empty county or first non-empty city of the Location rows fetched for
\* them holds the term
CityTextMatched(sv) ==
    IF "CITY_NAME" \in sv.cols
    THEN {sv.rows[i]["PWSID"] :
            i \in {j \in DOMAIN sv.rows : TextHolds(sv.rows[j]["CITY_NAME"], Term)}}
    ELSE {}
FirstPlaceMatched(sv) ==
    {sv.rows[i]["PWSID"] :
        i \in {j \in DOMAIN sv.rows :
                 /\ j <= max_ga_candidates
                 /\ \E g \in {GaCached(AsStr(sv.rows[j]["PWSID"]))} :
                       \E c \in {"COUNTY_SERVED", "CITY_SERVED"} :
                           /\ FirstNonEmpty(g, c) # <<>>
                           /\ Contains(Lower(FirstNonEmpty(g, c)), Term)}}
\* search_by_name: the survivors with a row, among the Location rows g pulled
\* whose key starts with the state code, whose county or city text holds
\* the term
PulledPlaceMatched(sv, g) ==
    {sv.rows[i]["PWSID"] :
        i \in {j \in DOMAIN sv.rows :
                 /\ StartsWith(AsStr(sv.rows[j]["PWSID"]), StateOf)
                 /\ \E k \in DOMAIN g.rows :
                       /\ g.rows[k]["PWSID"] = sv.rows[j]["PWSID"]
                       /\ \E c \in {"COUNTY_SERVED", "CITY_SERVED"} \cap g.cols :
                             TextHolds(g.rows[k][c], Term)}}

C20_FallbackNotEmpty ==
    (/\ SearchReturned /\ HasLocQuery
     /\ NameOnlyResult.rows # <<>>
     /\ CityMatched \cup PlaceMatched = {}) =>
        ev.result = NameOnlyResult

(***************************************************************************)
(* C21                                                                     *)
(***************************************************************************)
\* The paged fetches, each with the url of its requests and the remote rows
\* it is after
PagedFetches ==
    {[url |-> <<"WATER_SYSTEM", "state_code", st>>,
      tbl |-> FilterRows(remoteWS, "state_code", st),
      got |-> pull_rows_filtered("WATER_SYSTEM", "state_code", st)] : st \in STATES}
    \cup {[url |-> <<"GEOGRAPHIC_AREA">>, tbl |-> remoteGA,
           got |-> pull_rows_paged("GEOGRAPHIC_AREA")]}

\* The primary-key lookups
KeyFetches ==
    {fetch_table_by_pwsid(t, id) : t \in Range(TABLES), id \in {ID1, ID2, ID3}}

\* Page p of a fetch ends the loop: failed, not a JSON array, or empty
StopsAt(f, p) ==
    Failed(<<f.url, p>>) \/ Malformed(<<f.url, p>>) \/ PageOf(f.tbl.rows, p) = <<>>

\* The pages a fetch received before it stopped
Received(f) == {p \in 0..(Len(f.got.reqs) - 1) : ~StopsAt(f, p)}

\* The i-th request is for page i - 1, with the window of that page
InPageOrder(f) ==
    \A i \in DOMAIN f.got.reqs :
        /\ f.got.reqs[i] = <<f.url, i - 1>>
        /\ Window(f.got.reqs[i][2]).start = (i - 1) * PAGE_SIZE
        /\ Window(f.got.reqs[i][2]).end = (i - 1) * PAGE_SIZE + PAGE_SIZE

\* No page after a stopping one is requested, and the loop ends early only
\* at a stopping page
StopsAtFirstBadPage(f) ==
    /\ \A i \in DOMAIN f.got.reqs : i < Len(f.got.reqs) => ~StopsAt(f, i - 1)
    /\ Len(f.got.reqs) >= 1
    /\ Len(f.got.reqs) < MAX_PAGES => StopsAt(f, Len(f.got.reqs) - 1)

\* The result is the rows of the received pages, in page order
ConcatOfReceived(f) ==
    f.got.df = PagesBefore(f.tbl, Cardinality(Received(f)) + 1)

\* C21: a full-table or key-filtered fetch requests pages 0, 1, 2, ... in
\* increasing order, page p with rows window p*page_size : p*page_size +
\* page_size; it stops at the first page that is empty, not a JSON array or
\* failed; it never issues more than max_pages requests; it returns the
\* rows of the pages received before it stopped, in page order.  A
\* primary-key lookup issues exactly one request.
C21_PagedFetch ==
    ev.op \in {"init", "recover"} =>
        /\ \A f \in PagedFetches :
              /\ InPageOrder(f)
              /\ StopsAtFirstBadPage(f)
              /\ Len(f.got.reqs) <= MAX_PAGES
              /\ ConcatOfReceived(f)
        /\ \A k \in KeyFetches : Len(k.reqs) = 1

\* An operation pulled the System rows of the jurisdiction in two requests,
\* pages 0 and 1 in that order; page 1 was answered with JSON that is not a
\* list, and the rows of page 0 are what the pull returned.
C21_Witness ==
    /\ ev.op \in {"select", "search"}
    /\ net.kind = "malformed"
    /\ ev.wsReqs = << <<<<"WATER_SYSTEM", "state_code", state>>, 0>>,
                      <<<<"WATER_SYSTEM", "state_code", state>>, 1>> >>
    /\ ev.wsReqs[2] \in down
    /\ state \in DOMAIN wsCache
    /\ wsCache[state].rows # <<>>

(***************************************************************************)
(* C22                                                                     *)
(***************************************************************************)
\* The first non-empty value of a column among the Location rows g of a
\* system: the value, trimmed, of the first row where it is present
FirstPresent(g, c) ==
    IF c \in g.cols /\ \E i \in DOMAIN g.rows : Present(g.rows[i][c])
    THEN Strip(g.rows[CHOOSE i \in DOMAIN g.rows :
                         /\ Present(g.rows[i][c])
                         /\ \A j \in 1..(i - 1) : ~Present(g.rows[j][c])][c])
    ELSE <<>>

\* The term is a case-insensitive substring of one of the two first values
FirstValuesHold(g, term) ==
    \E c \in {"COUNTY_SERVED", "CITY_SERVED"} : Contains(Lower(FirstPresent(g, c)), term)

\* Some Location row of g, the first or a later one, holds the term
SomeRowHolds(g, term) ==
    \E i \in DOMAIN g.rows :
        \E c \in {"COUNTY_SERVED", "CITY_SERVED"} \cap g.cols : HoldsToken(g.rows[i][c], term)

\* The rows of the result that carry Location values for the system pid:
\* those the search counted as a Location match
ShownMatches(pid) ==
    IF "COUNTY_SERVED" \in ev.result.cols
    THEN {i \in DOMAIN ev.result.rows :
            ev.result.rows[i]["PWSID"] = pid /\ ev.result.rows[i]["COUNTY_SERVED"] # NULL}
    ELSE {}

\* The City a result row shows for a Location match with System row r
ShownCity(r, g) ==
    IF "CITY_NAME" \in DOMAIN r /\ Present(r["CITY_NAME"]) THEN Strip(r["CITY_NAME"])
    ELSE FirstPresent(g, "CITY_SERVED")

\* C22 as stated: a candidate is a Location match iff the term is a
\* case-insensitive substring of its first non-empty County or first
\* non-empty City value, and those two first values are the County and the
\* City shown for it.
C22_ShownAreFirstValues ==
    LocatedSearch =>
        \A sv \in {Survivors} : \A j \in DOMAIN sv.rows :
            j <= max_ga_candidates =>
                \A g \in {GaCached(AsStr(sv.rows[j]["PWSID"]))} :
                    /\ ShownMatches(sv.rows[j]["PWSID"]) # {} <=> FirstValuesHold(g, Term)
                    /\ \A i \in ShownMatches(sv.rows[j]["PWSID"]) :
                          /\ ev.result.rows[i]["COUNTY_SERVED"] = FirstPresent(g, "COUNTY_SERVED")
                          /\ ev.result.rows[i]["CITY"] = FirstPresent(g, "CITY_SERVED")

\* C22: in a fast_search with a location query, each of the first
\* max_ga_candidates candidates counts as a Location match iff the term is
\* a case-insensitive substring of the first non-empty County value or of
\* the first non-empty City value among its Location rows, so a later row
\* never makes it match; for a match the County shown is that first County
\* value, and the City shown is the System-table city when that is not
\* empty and the first City value otherwise.
C22_FirstValuesDecide ==
    LocatedSearch =>
        \A sv \in {Survivors} : \A j \in DOMAIN sv.rows :
            j <= max_ga_candidates =>
                \A g \in {GaCached(AsStr(sv.rows[j]["PWSID"]))} :
                    /\ ShownMatches(sv.rows[j]["PWSID"]) # {} <=> FirstValuesHold(g, Term)
                    /\ \A i \in ShownMatches(sv.rows[j]["PWSID"]) :
                          /\ ev.result.rows[i]["COUNTY_SERVED"] = FirstPresent(g, "COUNTY_SERVED")
                          /\ ev.result.rows[i]["CITY"] = ShownCity(sv.rows[j], g)

\* A search returned one candidate as a Location match, showing its first
\* County value, and did not count another candidate whose first County and
\* City values lack the term although a later Location row of it holds it.
C22_Witness ==
    /\ LocatedSearch /\ ev.path = "join"
    /\ \E pid \in ResultIds :
          \E k \in ShownMatches(pid) : ev.result.rows[k]["COUNTY_SERVED"] # <<>>
    /\ \E i \in DOMAIN FirstCandidates :
          \E g \in {GaCached(FirstCandidates[i])} :
              /\ SomeRowHolds(g, Term) /\ ~FirstValuesHold(g, Term)
              /\ \A k \in DOMAIN ev.result.rows :
                    AsStr(ev.result.rows[k]["PWSID"]) = FirstCandidates[i] =>
                        ev.result.rows[k]["COUNTY_SERVED"] = NULL

(***************************************************************************)
(* C23                                                                     *)
(***************************************************************************)
\* The request of a key fails or is answered with something that is no list
Degrades(req) == Failed(req) \/ Malformed(req)
\* The keys whose fetch degrades to empty data on the service as it is now
DegradingWs == {st \in STATES : Degrades(<<<<"WATER_SYSTEM", "state_code", st>>, 0>>)}
DegradingGa == {k \in {ID1, ID2, ID3} : Degrades(<<"GEOGRAPHIC_AREA", "pwsid", k>>)}
DegradingBundle ==
    {k \in {ID1, ID2, ID3} : \E t \in Range(TABLES) : Degrades(<<t, "pwsid", k>>)}

\* The negative entries the caches hold: an empty value for a key the
\* service has rows for, stored when the fetch of the key failed
NegWs ==
    {st \in DOMAIN wsCache :
        IsEmpty(wsCache[st]) /\ FilterRows(remoteWS, "state_code", st).rows # <<>>}
NegGa ==
    {gaCache[i].k : i \in {j \in DOMAIN gaCache :
        IsEmpty(gaCache[j].v) /\ FilterRows(remoteGA, "pwsid", gaCache[j].k).rows # <<>>}}
NegBundle ==
    {bundleCache[i].k : i \in {j \in DOMAIN bundleCache :
        /\ IsEmpty(bundleCache[j].v["GEOGRAPHIC_AREA"])
        /\ FilterRows(remoteGA, "pwsid", bundleCache[j].k).rows # <<>>}}

\* The keys stored as negative entries since the last clear or expiry: those
\* the caches hold, and the produced keys whose fetch degrades
NegProduced(space, held, degrading) ==
    {AsStr(k) : k \in held} \cup (KeysOf(produced, space) \cap {AsStr(k) : k \in degrading})

\* The entry of a key is the same after the step
SameEntry(c, d, k) == CacheHas(d, k) /\ CacheGet(d, k) = CacheGet(c, k)

\* C23 as stated: once a failed fetch has stored its empty value, no later
\* call with the same key issues a remote request until the ttl expires or
\* the cache is cleared, also after the service has recovered.
C23_NoRequestUntilExpiryOrClear ==
    [][KeepsEntries =>
          /\ InvokedWs \cap NegProduced("ws", NegWs, DegradingWs) = {}
          /\ InvokedGa \cap NegProduced("ga", NegGa, DegradingGa) = {}
          /\ InvokedBundle \cap NegProduced("bundle", NegBundle, DegradingBundle) = {}]_vars

\* C23: the empty value a failed fetch degrades to is stored like any other
\* value.  While the entry is held, a call with its key issues no remote
\* request and leaves the empty value in place, also after the service has
\* recovered, and a search on a jurisdiction whose System pull is held
\* empty returns nothing.  The entry ends with a clear or the expiry of the
\* ttl, or, for a Location pull or a detail bundle, when a new key is
\* stored into the full cache; only then is the key requested again.
C23_NegativeEntriesServed ==
    [][KeepsEntries =>
          /\ (ev'.wsReqs # <<>> /\ ~ev'.raised /\ state' \in DegradingWs) =>
                (state' \in DOMAIN wsCache' /\ IsEmpty(wsCache'[state']))
          /\ \A k \in DegradingGa :
                AsStr(k) \in InvokedGa =>
                    (CacheHas(gaCache', k) /\ IsEmpty(CacheGet(gaCache', k)))
          /\ \A k \in DegradingGa :
                AsStr(k) \in InvokedBundle =>
                    /\ CacheHas(bundleCache', k)
                    /\ IsEmpty(CacheGet(bundleCache', k)["GEOGRAPHIC_AREA"])
          /\ InvokedWs \cap NegProduced("ws", NegWs, DegradingWs) = {}
          /\ \A st \in NegWs : st \in DOMAIN wsCache' /\ wsCache'[st] = wsCache[st]
          /\ (ev'.op = "search" /\ state \in NegWs) => (IsEmpty(ev'.result) /\ ev'.gaReqs = <<>>)
          /\ InvokedGa \cap {AsStr(k) : k \in NegGa} = {}
          /\ \A k \in NegGa :
                SameEntry(gaCache, gaCache', k) \/ Len(gaCache) = GA_MAX_ENTRIES
          /\ (InvokedGa \cap NegProduced("ga", NegGa, DegradingGa) # {}) =>
                Cardinality(KeysOf(produced, "ga")) >= GA_MAX_ENTRIES
          /\ InvokedBundle \cap {AsStr(k) : k \in NegBundle} = {}
          /\ \A k \in NegBundle :
                \/ SameEntry(bundleCache, bundleCache', k)
                \/ Len(bundleCache) = BUNDLE_MAX_ENTRIES /\ ev'.bundleReqs # <<>>
          /\ (InvokedBundle \cap NegProduced("bundle", NegBundle, DegradingBundle) # {}) =>
                Cardinality(KeysOf(produced, "bundle")) > BUNDLE_MAX_ENTRIES]_vars

\* The System pull of the jurisdiction failed and its empty value was
\* stored; the service recovered; the search after that issued no request
\* and returned nothing, the empty value still being held.
C23_Witness ==
    /\ nops = MaxCacheOps - 3
    /\ ev.op = "search" /\ ~ev.raised
    /\ down = {}
    /\ state \in NegWs
    /\ ev.wsReqs = <<>> /\ ev.gaReqs = <<>>
    /\ IsEmpty(ev.result)

====
